---- MODULE Spec2Model ----
(***************************************************************************)
(* Registry synchronization and caching engine of KYB-Lite (Nexus AI):     *)
(* the Companies House rate limiter and client, the company details route, *)
(* the company search route and the request log that meters daily quota.   *)
(*                                                                         *)
(* Time is Date.now() in milliseconds.  Strings that the code inspects     *)
(* character by character (company numbers) are sequences of one-character *)
(* strings.                                                                *)
(***************************************************************************)
EXTENDS Integers, Sequences, FiniteSets, Bags, TLC

VARIABLES
    now,            \* Date.now(), milliseconds since the epoch
    requests,       \* RateLimiter.requests of every CompaniesHouseService instance
    pc,             \* position of every acquire() call: idle, waiting, done
    svc,            \* the service instance an acquire() call was made on
    wakeAt,         \* deadline of the setTimeout a suspended acquire() awaits
    waits,          \* how many times an acquire() call was suspended
    admitted,       \* history: every timestamp pushed, per service instance
    companies,      \* cache store, table companies: a set of rows
    search_queries, \* cache store, table search_queries: the request log
    persons,        \* cache store, table persons: a set of rows
    company_officers, \* cache store, table company_officers: a bag of rows
    resp            \* the last response sent, with what its handler did

rlVars == <<requests, pc, svc, wakeAt, waits, admitted>>
peopleVars == <<persons, company_officers>>
storeVars == <<companies, search_queries, persons, company_officers>>
vars == <<now, requests, pc, svc, wakeAt, waits, admitted, companies,
          search_queries, persons, company_officers, resp>>

NULL == "null"

(***************************************************************************)
(* Generic helpers                                                         *)
(***************************************************************************)
RECURSIVE SeqMin(_)
SeqMin(s) ==
    IF Len(s) = 1 THEN s[1]
    ELSE LET m == SeqMin(Tail(s)) IN IF s[1] < m THEN s[1] ELSE m

CountIn(s, lo, hi) == Cardinality({i \in DOMAIN s : lo <= s[i] /\ s[i] < hi})

(***************************************************************************)
(* RATE LIMITER  (class RateLimiter)                                       *)
(***************************************************************************)
\* constructor argument maxRequests; the service passes none, so the default
\* (600) applies.  The model instantiates the class with a small ceiling.
maxRequests == 2
\* constructor argument windowMs, default 5 * 60 * 1000
windowMs == 5 * 60 * 1000
\* "+ 1000; // Add 1s buffer"
waitBufferMs == 1000

NumCalls == 3       \* acquire() calls in the model

Calls == 1..NumCalls
\* CompaniesHouseService instances: createCompaniesHouseService() makes a new
\* one, with its own RateLimiter, on every call.
Services == {"svc1", "svc2"}

\* The clock readings the model observes: around every window boundary.
\* New calls arrive before LastArrival; the clock runs long enough after it
\* for every suspended call to be resumed.
LastArrival == 2 * windowMs
LastWindow == NumCalls + 2
RLOffsets == {0, waitBufferMs, windowMs - 1}
RLInstants == {k * windowMs + o : k \in 0..LastWindow, o \in RLOffsets}

\* this.requests.filter(time => now - time < this.windowMs)
FilterWindow(reqs, t) == SelectSeq(reqs, LAMBDA time : t - time < windowMs)

\* mutant: the limit test is off by one
LimitReachedOffByOne(reqs) == Len(reqs) > maxRequests
\* this.requests.length >= this.maxRequests
LimitReached(reqs) == Len(reqs) >= maxRequests

\* this.windowMs - (now - oldestRequest) + 1000
WaitTime(reqs, t) == windowMs - (t - SeqMin(reqs)) + waitBufferMs

\* mutant: a suspended call records its timestamp before it waits
AcquireCountsWaiters(reqs, t) ==
    LET kept == FilterWindow(reqs, t) IN
    IF LimitReached(kept) /\ WaitTime(kept, t) > 0
    THEN [outcome |-> "wait", requests |-> Append(kept, t), wait |-> WaitTime(kept, t)]
    ELSE [outcome |-> "admit", requests |-> Append(kept, t), wait |-> 0]
\* mutant: a full window rejects the call instead of suspending it
AcquireRejects(reqs, t) ==
    LET kept == FilterWindow(reqs, t) IN
    IF LimitReached(kept)
    THEN [outcome |-> "reject", requests |-> kept, wait |-> 0]
    ELSE [outcome |-> "admit", requests |-> Append(kept, t), wait |-> 0]
\* The synchronous body of acquire() run at time t on a limiter whose list is
\* reqs: either the call is recorded, or it is suspended for `wait` ms and
\* then calls acquire() again.
AcquireBody(reqs, t) ==
    LET kept == FilterWindow(reqs, t) IN
    IF LimitReached(kept) /\ WaitTime(kept, t) > 0
    THEN [outcome |-> "wait", requests |-> kept, wait |-> WaitTime(kept, t)]
    ELSE [outcome |-> "admit", requests |-> Append(kept, t), wait |-> 0]

\* What one run of the body does to the call c made on service s.
RunAcquire(c, s) ==
    LET r == AcquireBody(requests[s], now) IN
    /\ requests' = [requests EXCEPT ![s] = r.requests]
    /\ svc' = [svc EXCEPT ![c] = s]
    /\ pc' = [pc EXCEPT ![c] = CASE r.outcome = "admit" -> "done"
                                 [] r.outcome = "wait" -> "waiting"
                                 [] OTHER -> "rejected"]
    /\ wakeAt' = [wakeAt EXCEPT ![c] = IF r.outcome = "wait" THEN now + r.wait ELSE 0]
    /\ waits' = [waits EXCEPT ![c] = IF r.outcome = "wait" THEN @ + 1 ELSE @]
    /\ admitted' = [admitted EXCEPT ![s] =
                        IF r.outcome = "admit" THEN Append(@, now) ELSE @]

\* A registry-client method starts: await this.rateLimiter.acquire()
Acquire(c, s) ==
    /\ pc[c] = "idle"
    /\ now < LastArrival
    /\ RunAcquire(c, s)
    /\ UNCHANGED <<now, storeVars, resp>>

\* The timer of a suspended call fires: return this.acquire()
TimerFires(c) ==
    /\ pc[c] = "waiting"
    /\ now >= wakeAt[c]
    /\ RunAcquire(c, svc[c])
    /\ UNCHANGED <<now, storeVars, resp>>

\* Time passes.
TickRL ==
    /\ \E t \in RLInstants : t > now /\ now' = t
    /\ UNCHANGED <<rlVars, storeVars, resp>>

InitLimiters ==
    /\ requests = [s \in Services |-> <<>>]
    /\ pc = [c \in Calls |-> "idle"]
    /\ svc = [c \in Calls |-> NULL]
    /\ wakeAt = [c \in Calls |-> 0]
    /\ waits = [c \in Calls |-> 0]
    /\ admitted = [s \in Services |-> <<>>]

NoResponse == [op |-> "none"]

InitRL ==
    /\ now = 0
    /\ InitLimiters
    /\ companies = {}
    /\ search_queries = EmptyBag
    /\ persons = {} /\ company_officers = EmptyBag
    /\ resp = NoResponse

NextRL ==
    \/ \E c \in Calls, s \in Services : Acquire(c, s)
    \/ \E c \in Calls : TimerFires(c)
    \/ TickRL

SpecRL == InitRL /\ [][NextRL]_vars

\* The event loop runs a due timer, and time does not stop.
SpecRLFair ==
    /\ SpecRL
    /\ WF_vars(TickRL)
    /\ \A c \in Calls : WF_vars(TimerFires(c))

(***************************************************************************)
(* Claims about the rate limiter                                           *)
(***************************************************************************)
\* C5: for one RateLimiter instance, the admitted calls whose recorded
\* timestamps fall inside any rolling window [a, a + windowMs) never number
\* more than maxRequests.
C5_WindowBudgetPerLimiter ==
    \A s \in Services : \A i \in DOMAIN admitted[s] :
        CountIn(admitted[s], admitted[s][i], admitted[s][i] + windowMs) <= maxRequests

\* C5 witness: a limiter that was full has admitted more calls than its
\* ceiling over time, after suspending one of them.
C5_Witness ==
    \E s \in Services : \E c \in Calls :
        /\ Len(admitted[s]) > maxRequests
        /\ svc[c] = s /\ pc[c] = "done" /\ waits[c] > 0

\* C6: a call made on a full window is suspended, never rejected or dropped,
\* and every suspended call is eventually admitted.
C6_AcquireAlwaysReturns ==
    /\ [](\A c \in Calls : pc[c] \in {"idle", "waiting", "done"})
    /\ \A c \in Calls : (pc[c] = "waiting") ~> (pc[c] = "done")

\* C6 witness: a call that found the window full has returned.
C6_Witness == \E c \in Calls : pc[c] = "done" /\ waits[c] > 0

\* All registry calls of the system, whichever service instance made them.
AllAdmitted == {<<s, i>> : s \in Services, i \in 1..NumCalls}
OutboundIn(lo, hi) ==
    Cardinality({p \in AllAdmitted :
        /\ p[2] \in DOMAIN admitted[p[1]]
        /\ lo <= admitted[p[1]][p[2]] /\ admitted[p[1]][p[2]] < hi})

\* C7 (as claimed): over all service instances together, no rolling window
\* holds more than maxRequests registry calls.
C7_GlobalWindowBudget ==
    \A s \in Services : \A i \in DOMAIN admitted[s] :
        OutboundIn(admitted[s][i], admitted[s][i] + windowMs) <= maxRequests

(***************************************************************************)
(* STRINGS  (company numbers, as sequences of characters)                  *)
(***************************************************************************)
\* String.prototype.toUpperCase, on the characters the model uses
Upper(ch) == CASE ch = "a" -> "A" [] ch = "b" -> "B" [] OTHER -> ch
toUpperCase(str) == [i \in DOMAIN str |-> Upper(str[i])]
\* the character class [A-Z0-9]
IsAZ09(ch) == ch \in {"0", "1", "2", "A", "B"}

\* companyNumber.toUpperCase().replace(/[^A-Z0-9]/g, '')
cleanCompanyNumber(str) == SelectSeq(toUpperCase(str), IsAZ09)

\* cleaned = companyNumber.replace(/[^A-Z0-9]/gi, ''); 2 <= length <= 8
isValidCompanyNumber(str) ==
    LET cleaned == SelectSeq(str, LAMBDA ch : IsAZ09(Upper(ch))) IN
    Len(cleaned) >= 2 /\ Len(cleaned) <= 8

(***************************************************************************)
(* CACHE STORE  (tables companies and search_queries)                      *)
(***************************************************************************)
\* a null last_synced_at; the route reads it as new Date(null || 0)
NullTs == 0

\* ON CONFLICT (company_number) DO UPDATE: the payload's columns overwrite
\* the row with that company_number, or a new row is inserted.
\* mutant: a plain insert, no conflict target
UpsertCompanyInsertOnly(db, data) == db \cup {data}
UpsertCompany(db, data) ==
    {r \in db : r.company_number # data.company_number} \cup {data}

\* .eq('company_number', companyNumber.toUpperCase()).single():
\* the one matching row, or null (PGRST116) -- as a set of at most one row
getLocalCompany(db, companyNumber) ==
    LET hit == {r \in db : r.company_number = toUpperCase(companyNumber)} IN
    IF Cardinality(hit) = 1 THEN hit ELSE {}

\* The table search_queries is a bag of rows (a row's id is not modelled).
\* A row logSearchQuery inserts; created_at defaults to now()
LogRow(u, type, t) == [user_id |-> u, query_type |-> type, created_at |-> t]
\* logSearchQuery: insert into search_queries
logSearchQuery(log, queryData) == log (+) SetToBag({queryData})
\* the number of rows of the log among the selected ones
CountRows(log, selected) ==
    BagCardinality([r \in selected \cap BagToSet(log) |-> log[r]])

(***************************************************************************)
(* REGISTRY CLIENT  (CompaniesHouseService)                                *)
(***************************************************************************)
\* revisions of a company's data the registry may serve; a revision shows in
\* the company's name and in its SIC codes
Revisions == {"A", "B"}
RegistryName(companyNumber, rev) == <<rev>> \o companyNumber
\* What the registry answers to GET /company/{number}: 200 with the company,
\* 404, or a failure (another non-2xx status, or no answer at all), which
\* getCompany turns into the same CompaniesHouseError(..., 500).
CompanyReplies ==
    {[kind |-> "ok", rev |-> v] : v \in Revisions}
        \cup {[kind |-> k, rev |-> NULL] : k \in {"404", "503"}}
NoReply == [kind |-> "none", rev |-> NULL]

\* getCompany: the settled promise.  A 404 throws CompaniesHouseError(404);
\* any other failure is rethrown as CompaniesHouseError(..., 500).
getCompany(companyNumber, reply) ==
    IF reply.kind = "ok"
    THEN [status |-> "fulfilled",
          value |-> {[company_number |-> cleanCompanyNumber(companyNumber),
                      company_name |->
                          RegistryName(cleanCompanyNumber(companyNumber), reply.rev),
                      sic_codes |-> <<reply.rev>>]},
          message |-> NULL, statusCode |-> 0]
    ELSE [status |-> "rejected", value |-> {},
          message |-> IF reply.kind = "404" THEN "Company not found"
                      ELSE "Failed to fetch company data",
          statusCode |-> IF reply.kind = "404" THEN 404 ELSE 500]

\* getCompleteProfile: Promise.allSettled of getCompany, getOfficers, getPSCs
\* (the registry lists no officers and no PSCs here)
getCompleteProfile(companyNumber, reply) ==
    LET company == getCompany(companyNumber, reply) IN
    [company |-> company.value,
     officers |-> <<>>,
     pscs |-> <<>>,
     errors |-> [company |-> company.message, officers |-> NULL, pscs |-> NULL]]

(***************************************************************************)
(* COMPANY DETAILS ROUTE  (GET /api/companies/[companyNumber])             *)
(***************************************************************************)
DAY_MS == 24 * 60 * 60 * 1000

\* mutant: a record exactly 24 hours old still counts as fresh
IsFreshInclusive(row, t) == row.last_synced_at >= t - DAY_MS
\* lastSynced > dayAgo
IsFresh(row, t) == row.last_synced_at > t - DAY_MS

\* mutant: the upsert leaves the sic_codes of an existing row as they are
cacheCompanyDataMerging(db, profile, t, upsertOutcome) ==
    LET chCompany == CHOOSE c \in profile.company : TRUE
        old == {r \in db : r.company_number = chCompany.company_number}
        companyData == [company_number |-> chCompany.company_number,
                        name |-> chCompany.company_name,
                        sic_codes |-> IF old = {} THEN chCompany.sic_codes
                                      ELSE (CHOOSE r \in old : TRUE).sic_codes,
                        last_synced_at |-> t]
        saved == UpsertCompany(db, companyData)
    IN  [threw |-> FALSE, db |-> saved,
         company |-> getLocalCompany(saved, chCompany.company_number)]
\* cacheCompanyData: upsert the company, then read it back; a failed upsert
\* throws
cacheCompanyData(db, profile, t, upsertOutcome) ==
    LET chCompany == CHOOSE c \in profile.company : TRUE
        companyData == [company_number |-> chCompany.company_number,
                        name |-> chCompany.company_name,
                        sic_codes |-> chCompany.sic_codes,
                        last_synced_at |-> t]
        saved == UpsertCompany(db, companyData)
    IN  IF upsertOutcome = "error"
        THEN [threw |-> TRUE, db |-> db, company |-> {}]
        ELSE [threw |-> FALSE, db |-> saved,
              company |-> getLocalCompany(saved, chCompany.company_number)]

\* getCompaniesHouseCompany.  isNull: the returned company is null; when it is
\* not, it is the object getLocalCompany returned, holding the row read back.
getCompaniesHouseCompany(db, companyNumber, reply, upsertOutcome, t) ==
    LET profile == getCompleteProfile(companyNumber, reply)
        cached == cacheCompanyData(db, profile, t, upsertOutcome)
    IN  IF profile.company = {}
        THEN [company |-> {}, isNull |-> TRUE, notFound |-> TRUE, error |-> NULL,
              source |-> NULL, db |-> db, upsert |-> "none"]
        ELSE IF cached.threw
        THEN [company |-> {}, isNull |-> TRUE, notFound |-> FALSE,
              error |-> "Failed to fetch from Companies House API",
              source |-> NULL, db |-> db, upsert |-> "error"]
        ELSE [company |-> cached.company, isNull |-> FALSE, notFound |-> FALSE,
              error |-> NULL, source |-> "companies_house", db |-> cached.db,
              upsert |-> "ok"]

\* z.enum(['local', 'companies_house', 'both']).default('both') applied to
\* searchParams.get('source'): an absent parameter is null, not undefined, so
\* the default does not apply and the parse fails
SourceParses(srcRaw) == srcRaw \in {"local", "companies_house", "both"}
\* z.coerce.boolean() applied to searchParams.get(...): Boolean(value)
CoerceBoolean(raw) == raw \notin {NULL, ""}

\* The GET handler run at time t on the cache store db.  The result holds the
\* response (with a record of what the handler did), the cache store it
\* leaves, and whether it logged the query.
DetailsHandler(db, t, u, companyNumber, srcRaw, refreshRaw, reply, upsertOutcome) ==
    LET Handle(localResult, chResult) ==
      LET refresh == CoerceBoolean(refreshRaw)
          base == [op |-> "details", at |-> t, user |-> u, number |-> companyNumber,
                   source |-> srcRaw, refresh |-> refresh,
                   stored |-> {r \in db : r.company_number = toUpperCase(companyNumber)},
                   readLocal |-> FALSE, local |-> {}, registryCalls |-> 0,
                   reply |-> NoReply, upsert |-> "none",
                   status |-> 200, error |-> NULL, company |-> {},
                   bodySource |-> NULL, errors |-> {}]
          rejected(code, msg) ==
              [resp |-> [base EXCEPT !.status = code, !.error = msg],
               companies |-> db, logged |-> FALSE]
          \* the three branches of "Determine search strategy"
          viaRegistry ==
              [company |-> chResult.company, isNull |-> chResult.isNull,
               source |-> IF chResult.source # NULL THEN chResult.source
                          ELSE "companies_house",
               readLocal |-> FALSE, fetched |-> TRUE]
          viaLocal ==
              [company |-> localResult, isNull |-> localResult = {},
               source |-> "local", readLocal |-> TRUE, fetched |-> FALSE]
          viaBoth ==
              IF localResult # {}
              THEN IF IsFresh(CHOOSE r \in localResult : TRUE, t)
                   THEN [viaLocal EXCEPT !.source = "local"]
                   ELSE [company |-> IF chResult.isNull THEN localResult
                                     ELSE chResult.company,
                         isNull |-> FALSE,
                         source |-> IF chResult.isNull THEN "local"
                                    ELSE "companies_house",
                         readLocal |-> TRUE, fetched |-> TRUE]
              ELSE [viaRegistry EXCEPT !.readLocal = TRUE]
          result == IF refresh \/ srcRaw = "companies_house" THEN viaRegistry
                    ELSE IF srcRaw = "local" THEN viaLocal
                    ELSE viaBoth
          \* "if (result.error) errors.push(result.error)": no branch above
          \* copies an error into result, so nothing is ever pushed
          errors == {}
          done == [base EXCEPT !.readLocal = result.readLocal,
                               !.local = IF result.readLocal THEN localResult ELSE {},
                               !.registryCalls = IF result.fetched THEN 3 ELSE 0,
                               !.reply = IF result.fetched THEN reply ELSE NoReply,
                               !.upsert = IF result.fetched THEN chResult.upsert ELSE "none",
                               !.errors = errors]
      IN  IF Len(companyNumber) < 1 \/ ~SourceParses(srcRaw)
          THEN rejected(400, "Invalid request parameters")
          ELSE IF ~isValidCompanyNumber(companyNumber)
          THEN rejected(400, "Invalid company number format")
          ELSE IF u = NULL
          THEN rejected(401, "Authentication required")
          ELSE IF result.isNull
          THEN [resp |-> [done EXCEPT !.status = 404, !.error = "Company not found"],
                companies |-> IF result.fetched THEN chResult.db ELSE db,
                logged |-> FALSE]
          ELSE [resp |-> [done EXCEPT !.company = result.company,
                                      !.bodySource = result.source],
                companies |-> IF result.fetched THEN chResult.db ELSE db,
                logged |-> TRUE]
    \* each of the two lookups is awaited once and its result reused
    IN  CHOOSE out \in
          {Handle(localResult, chResult) :
              localResult \in {getLocalCompany(db, companyNumber)},
              chResult \in {getCompaniesHouseCompany(db, companyNumber, reply,
                                                     upsertOutcome, t)}} : TRUE

\* The officers of the response body, result.company.company_officers || [].
\* result.company is the row with its embedded company_officers when the row
\* was read locally; when it came from getCompaniesHouseCompany it is what
\* cacheCompanyData returned, the object {company, executionTime, source} of
\* getLocalCompany, which has no company_officers.
DetailsBody(r, officers) ==
    [f \in DOMAIN r \cup {"officers"} |->
        IF f # "officers" THEN r[f]
        ELSE IF r.status = 200 /\ r.registryCalls > 0
                /\ r.bodySource = "companies_house"
        THEN {}
        ELSE {o \in BagToSet(officers) :
                \E row \in r.company : o.company_id = row.company_number}]

\* One request to the details route, handled at the current time.
GetDetails(u, companyNumber, srcRaw, refreshRaw, reply, upsertOutcome) ==
    \E out \in {DetailsHandler(companies, now, u, companyNumber, srcRaw,
                                refreshRaw, reply, upsertOutcome)} :
    /\ resp' = DetailsBody(out.resp, company_officers)
    /\ companies' = out.companies
    /\ search_queries' =
          IF out.logged
          THEN logSearchQuery(search_queries, LogRow(u, "company_details", now))
          ELSE search_queries
    /\ UNCHANGED <<now, rlVars, peopleVars>>

(***************************************************************************)
(* Specification of the details route                                      *)
(***************************************************************************)
MaxLogRows == 2     \* requests are taken while the log holds fewer rows

UserIds == {"u1"}
DetailNumbers == {<<"1", "2">>, <<"1", " ", "2">>, <<"1">>}
SourceParams == {NULL, "local", "companies_house", "both"}
RefreshParams == {NULL, "false"}
UpsertOutcomes == {"ok", "error"}

\* the clock starts two days after the epoch and is read around the
\* 24-hour boundary
ClockOrigin == 2 * DAY_MS
DetailInstants == {ClockOrigin + o : o \in {0, DAY_MS - 1, DAY_MS}}

\* seed.sql inserts companies without a last_synced_at
SeedCompany ==
    [company_number |-> <<"1", "2">>,
     name |-> RegistryName(<<"1", "2">>, "A"), sic_codes |-> <<"A">>,
     last_synced_at |-> NullTs]

Init ==
    /\ now = ClockOrigin
    /\ InitLimiters
    /\ companies \in {{}, {SeedCompany}}
    /\ search_queries = EmptyBag
    /\ persons = {} /\ company_officers = EmptyBag
    /\ resp = NoResponse

\* a request the handler answers before it looks anything up, for one of its
\* three reasons: a parameter that does not parse, a malformed company
\* number, no session
DetailsRejected ==
    /\ BagCardinality(search_queries) < MaxLogRows
    /\ \E u \in UserIds \cup {NULL}, n \in DetailNumbers, src \in SourceParams,
          rf \in RefreshParams :
            /\ \/ ~SourceParses(src) /\ isValidCompanyNumber(n) /\ u # NULL
               \/ SourceParses(src) /\ ~isValidCompanyNumber(n) /\ u # NULL
               \/ SourceParses(src) /\ isValidCompanyNumber(n) /\ u = NULL
            /\ GetDetails(u, n, src, rf, NoReply, "ok")

\* a request that reaches the search strategy; the registry's answer and the
\* outcome of the upsert are drawn only when the handler gets that far
DetailsRequest ==
    /\ BagCardinality(search_queries) < MaxLogRows
    /\ \E u \in UserIds, n \in DetailNumbers, src \in SourceParams,
          rf \in RefreshParams :
            /\ SourceParses(src) /\ isValidCompanyNumber(n)
            /\ IF DetailsHandler(companies, now, u, n, src, rf, NoReply, "ok")
                      .resp.registryCalls = 0
               THEN GetDetails(u, n, src, rf, NoReply, "ok")
               ELSE \E reply \in CompanyReplies, up \in UpsertOutcomes :
                      /\ reply.kind = "ok" \/ up = "ok"
                      /\ GetDetails(u, n, src, rf, reply, up)

Tick ==
    /\ \E t \in DetailInstants : t > now /\ now' = t
    /\ UNCHANGED <<rlVars, storeVars, resp>>

Next == DetailsRejected \/ DetailsRequest \/ Tick

Spec == Init /\ [][Next]_vars

(***************************************************************************)
(* Claims about the details route                                          *)
(***************************************************************************)
\* the rows the cache store holds under the key the last request looked up
StoredNow == {r \in companies : r.company_number = toUpperCase(resp.number)}

ReachedFetchRemote ==
    /\ resp.op = "details" /\ resp.source = "both"
    /\ resp.registryCalls > 0
    /\ resp.refresh \/ resp.local # {}

\* C2 (as claimed): when the fetch fails and a local record exists, the
\* response is a success that carries the local record and is annotated with
\* the fetch error.
C2_StaleFallbackAnnotated ==
    (ReachedFetchRemote /\ resp.reply.kind # "ok" /\ resp.stored # {}) =>
        /\ resp.status = 200
        /\ resp.company = resp.stored
        /\ resp.errors # {}

\* C3 (as claimed): with no local record, a registry 404 fails the request
\* with NotFound and any other registry failure fails it with an error that
\* is not NotFound.
C3_NotFoundVersusUpstreamError ==
    (resp.op = "details" /\ resp.source = "both" /\ resp.registryCalls > 0
        /\ resp.stored = {} /\ resp.reply.kind # "ok") =>
        /\ resp.status # 200
        /\ resp.reply.kind = "404" => resp.status = 404
        /\ resp.reply.kind # "404" => resp.status # 404

\* C4 (as claimed): when the registry fetch succeeds and the write-back
\* fails, the response is still a success carrying the fetched entity.
C4_WriteBackFailureSwallowed ==
    (resp.op = "details" /\ resp.registryCalls > 0 /\ resp.reply.kind = "ok"
        /\ resp.upsert = "error") =>
        /\ resp.status = 200
        /\ \E row \in resp.company :
              /\ row.company_number = cleanCompanyNumber(resp.number)
              /\ row.sic_codes = <<resp.reply.rev>>

(***************************************************************************)
(* LOCAL SEARCH  (SQL function search_companies)                           *)
(***************************************************************************)
\* the characters of the model in collation order
Alphabet == <<" ", "0", "1", "2", "A", "B">>
CharRank == [ch \in {Alphabet[i] : i \in DOMAIN Alphabet} |->
                CHOOSE i \in DOMAIN Alphabet : Alphabet[i] = ch]

\* a < b in the order ORDER BY c.name sorts by
StrLess(a, b) ==
    \E i \in 1..Len(b) :
        /\ i > Len(a) \/ CharRank[a[i]] < CharRank[b[i]]
        /\ \A j \in 1..(i - 1) : j <= Len(a) /\ a[j] = b[j]

\* str ILIKE pattern: % matches any run of characters, _ any one character,
\* every other character itself whatever its case
RECURSIVE ILike(_, _)
ILike(str, pattern) ==
    IF pattern = <<>> THEN str = <<>>
    ELSE IF Head(pattern) = "%"
    THEN ILike(str, Tail(pattern)) \/ (str # <<>> /\ ILike(Tail(str), pattern))
    ELSE /\ str # <<>>
         /\ Head(pattern) = "_" \/ Upper(Head(str)) = Upper(Head(pattern))
         /\ ILike(Tail(str), Tail(pattern))

\* str ILIKE '%' || term || '%'
ILikeContains(str, term) == ILike(str, <<"%">> \o term \o <<"%">>)
\* str ILIKE term || '%'
ILikePrefix(str, term) == ILike(str, term \o <<"%">>)

\* the CASE of the ORDER BY clause
SortGroup(c, search_term) ==
    IF ILikePrefix(c.name, search_term) \/ c.company_number = search_term
    THEN 1 ELSE 2
\* the sort key of a row: the CASE, then c.name
SortKey(c, search_term) == <<SortGroup(c, search_term), c.name>>
KeyBefore(a, b) == a[1] < b[1] \/ (a[1] = b[1] /\ StrLess(a[2], b[2]))

Min(a, b) == IF a < b THEN a ELSE b
\* LIMIT n, Array.prototype.slice(0, n)
Take(seq, n) == SubSeq(seq, 1, Min(n, Len(seq)))

\* The rows of the function's result: the matching companies in the order of
\* ORDER BY, cut at limit_count.  (Companies of the model have distinct
\* names, so the order is total.)
search_companies(db, search_term, limit_count) ==
    LET matching == {c \in db : \/ ILikeContains(c.name, search_term)
                               \/ ILikeContains(c.company_number, search_term)}
        Row(c) == [company_number |-> c.company_number, name |-> c.name,
                   source |-> NULL]
        \* every row with the number of rows that sort before it
        Ranked(keyed) ==
            {<<Cardinality({o \in keyed : KeyBefore(o[1], k[1])}), k[2]>> :
                k \in keyed}
        Ordered(ranked) ==
            [i \in 1..Cardinality(ranked) |->
                (CHOOSE p \in ranked : p[1] = i - 1)[2]]
        sorted == CHOOSE rows \in
            {Ordered(ranked) : ranked \in
                {Ranked(keyed) : keyed \in
                    {{<<SortKey(c, search_term), Row(c)>> : c \in matching}}}} :
            TRUE
    IN  Take(sorted, limit_count)

(***************************************************************************)
(* COMPANY SEARCH ROUTE  (GET /api/companies/search)                       *)
(***************************************************************************)
SUBSCRIPTION_LIMITS ==
    [free       |-> [searchesPerDay |-> 5,    resultsPerSearch |-> 5],
     basic      |-> [searchesPerDay |-> 100,  resultsPerSearch |-> 20],
     pro        |-> [searchesPerDay |-> 1000, resultsPerSearch |-> 50],
     enterprise |-> [searchesPerDay |-> -1,   resultsPerSearch |-> 100]]

\* getUserTier, from the product of the caller's active subscription (NULL:
\* no subscription)
getUserTier(productId) ==
    CASE productId = "prod_nexus_basic" -> "basic"
      [] productId = "prod_nexus_pro" -> "pro"
      [] productId = "prod_nexus_enterprise" -> "enterprise"
      [] OTHER -> "free"

\* new Date().toISOString().split('T')[0], as the number of the UTC day
UtcDate(t) == t \div DAY_MS

\* checkSearchLimit: may the caller search now?
checkSearchLimit(log, userId, tier, t) ==
    LET limit == SUBSCRIPTION_LIMITS[tier].searchesPerDay
        dayStart == UtcDate(t) * DAY_MS         \* `${today}T00:00:00.000Z`
        dayEnd == dayStart + DAY_MS - 1         \* `${today}T23:59:59.999Z`
        Today(r) == /\ r.user_id = userId
                    /\ r.created_at >= dayStart
                    /\ r.created_at < dayEnd
    IN  IF limit = -1 THEN TRUE
        ELSE CountRows(log, {r \in BagToSet(log) : Today(r)}) < limit

\* the company numbers the registry lists, in the order it lists them
RegistryDigits == <<"1", "2", "0", "A", "B">>
RegistryNumber(i) ==
    <<RegistryDigits[((i \div 5) % 5) + 1], RegistryDigits[(i % 5) + 1]>>

\* searchCompanies: the items of the registry's answer, or a thrown
\* CompaniesHouseError('Failed to search companies', 500).  The client does
\* not cut the list it receives to itemsPerPage.
searchCompanies(query, itemsPerPage, reply) ==
    IF reply.kind = "ok"
    THEN [threw |-> FALSE,
          items |-> [i \in 1..reply.count |->
                        [company_number |-> RegistryNumber(i),
                         title |-> RegistryName(RegistryNumber(i), reply.rev)]]]
    ELSE [threw |-> TRUE, items |-> <<>>]

\* cacheCompaniesHouseResults: one upsert per item, of the columns the search
\* item carries; a failed upsert is not noticed
cacheCompaniesHouseResults(db, results, t, upsertOutcome) ==
    LET numbers == {results[i].company_number : i \in DOMAIN results}
        LastOf(n) == results[CHOOSE i \in DOMAIN results :
                        /\ results[i].company_number = n
                        /\ \A j \in DOMAIN results :
                              j > i => results[j].company_number # n]
        Old(n) == {r \in db : r.company_number = n}
        Row(n) == [company_number |-> n,
                   name |-> LastOf(n).title,
                   sic_codes |-> IF Old(n) = {} THEN <<>>
                                 ELSE (CHOOSE r \in Old(n) : TRUE).sic_codes,
                   last_synced_at |-> t]
    IN  IF upsertOutcome = "error" THEN db
        ELSE {r \in db : r.company_number \notin numbers}
                \cup {Row(n) : n \in numbers}

\* searchCompaniesHouse: search the registry, cache the items, map them
\* mutant: a failed write of the candidates fails the registry search
searchCompaniesHouseStrict(db, query, limit, reply, upsertOutcome, t) ==
    LET found == searchCompanies(query, limit, reply) IN
    IF found.threw
    THEN [results |-> <<>>, error |-> "Failed to search companies", db |-> db]
    ELSE IF upsertOutcome = "error" /\ found.items # <<>>
    THEN [results |-> <<>>, error |-> "Failed to search Companies House API",
          db |-> db]
    ELSE [results |-> [i \in DOMAIN found.items |->
                          [company_number |-> found.items[i].company_number,
                           name |-> found.items[i].title,
                           source |-> "companies_house"]],
          error |-> NULL,
          db |-> cacheCompaniesHouseResults(db, found.items, t, upsertOutcome)]
searchCompaniesHouse(db, query, limit, reply, upsertOutcome, t) ==
    LET found == searchCompanies(query, limit, reply) IN
    IF found.threw
    THEN [results |-> <<>>, error |-> "Failed to search companies", db |-> db]
    ELSE [results |-> [i \in DOMAIN found.items |->
                          [company_number |-> found.items[i].company_number,
                           name |-> found.items[i].title,
                           source |-> "companies_house"]],
          error |-> NULL,
          db |-> cacheCompaniesHouseResults(db, found.items, t, upsertOutcome)]
NoRegistrySearch(db) == [results |-> <<>>, error |-> NULL, db |-> db]

\* mutant: the last entry of every company_number is the one kept
DeduplicateKeepLast(allResults) ==
    LET Last(i) == \A j \in (i + 1)..Len(allResults) :
                      allResults[j].company_number # allResults[i].company_number
        kept == SelectSeq([i \in DOMAIN allResults |-> i], Last)
    IN  [k \in DOMAIN kept |-> allResults[kept[k]]]
\* allResults.reduce(...): the first entry of every company_number, in order
Deduplicate(allResults) ==
    LET First(i) == \A j \in 1..(i - 1) :
                       allResults[j].company_number # allResults[i].company_number
        kept == SelectSeq([i \in DOMAIN allResults |-> i], First)
    IN  [k \in DOMAIN kept |-> allResults[kept[k]]]
\* Array.prototype.slice(startIndex, endIndex), 0 <= startIndex <= endIndex
Slice(seq, startIndex, endIndex) ==
    IF startIndex >= Len(seq) THEN <<>>
    ELSE SubSeq(seq, startIndex + 1, Min(endIndex, Len(seq)))

\* z.coerce.number() applied to searchParams.get(...): Number(value), where
\* an absent parameter is null and Number(null) is 0.  A parameter is <<>>
\* when absent and <<n>> when it is the decimal text of n.
CoerceNumber(raw) == IF raw = <<>> THEN 0 ELSE raw[1]

\* SearchParamsSchema.parse succeeds.  q is a string of 1..100 characters (an
\* absent q is null and fails like the empty string); source must be given,
\* for the same reason as in the details route.
SearchParamsParse(q, srcRaw, limitRaw, pageRaw) ==
    /\ Len(q) >= 1 /\ Len(q) <= 100
    /\ srcRaw \in {"local", "companies_house", "both"}
    /\ CoerceNumber(limitRaw) >= 1 /\ CoerceNumber(limitRaw) <= 50
    /\ CoerceNumber(pageRaw) >= 1

\* mutant: the tier's ceiling on results is not applied
actualLimitUncapped(limit, maxResults) == limit
\* Math.min(params.limit, maxResults)
actualLimit(limit, maxResults) == Min(limit, maxResults)

NoSearchReply == [kind |-> "none", count |-> 0, rev |-> NULL]

\* mutant: a both-sources search always asks the registry
searchesRegistryAlways(srcRaw, localCount, cap) ==
    srcRaw \in {"companies_house", "both"}
\* the registry is searched when it is the only source asked for, or when
\* the local search returned fewer than actualLimit results
searchesRegistry(srcRaw, localCount, cap) ==
    \/ srcRaw = "companies_house"
    \/ srcRaw = "both" /\ localCount < cap

\* the company numbers of a list of results
NumbersOf(results) == {results[i].company_number : i \in DOMAIN results}

\* The GET handler run at time t on the cache store db and the request log.
\* The result holds the response (with a record of what the handler did),
\* the cache store it leaves, and whether it logged the query.
\* mutant: the denied search is logged
QuotaExceededLogged(base, tier, db) ==
    [resp |-> [base EXCEPT
         !.status = 429, !.error = "Daily search limit exceeded",
         !.quotaLimit = SUBSCRIPTION_LIMITS[tier].searchesPerDay],
     companies |-> db, logged |-> TRUE]
\* the answer to a search over the daily limit: 429 with the limit and the
\* tier, sent before anything is searched or logged
QuotaExceeded(base, tier, db) ==
    [resp |-> [base EXCEPT
         !.status = 429, !.error = "Daily search limit exceeded",
         !.quotaLimit = SUBSCRIPTION_LIMITS[tier].searchesPerDay],
     companies |-> db, logged |-> FALSE]

SearchHandler(db, log, t, u, productId, q, srcRaw, limitRaw, pageRaw, reply, upsertOutcome) ==
    LET limit == CoerceNumber(limitRaw)
        page == CoerceNumber(pageRaw)
        tier == getUserTier(productId)
        maxResults == SUBSCRIPTION_LIMITS[tier].resultsPerSearch
        cap == actualLimit(limit, maxResults)
        base == [op |-> "search", at |-> t, user |-> u, tier |-> tier, q |-> q,
                 source |-> srcRaw, limit |-> limit, page |-> page,
                 status |-> 200, error |-> NULL, quotaLimit |-> 0,
                 results |-> <<>>, total |-> 0, actualLimit |-> 0,
                 readLocal |-> FALSE, localCount |-> 0,
                 registryCalls |-> 0, registryCount |-> 0,
                 merged |-> <<>>, localNumbers |-> {}, registryNumbers |-> {},
                 reply |-> NoSearchReply, errors |-> {}]
        rejected(code, msg) ==
            [resp |-> [base EXCEPT !.status = code, !.error = msg],
             companies |-> db, logged |-> FALSE]
        searchLocal == srcRaw \in {"local", "both"}
        Finish(localResults, chResults, searchRegistry) ==
            LET uniqueResults == Deduplicate(localResults \o chResults.results)
                startIndex == (page - 1) * cap
                paginatedResults == Slice(uniqueResults, startIndex, startIndex + cap)
            IN [resp |-> [base EXCEPT
                     !.results = paginatedResults,
                     !.total = Len(uniqueResults),
                     !.actualLimit = cap,
                     !.readLocal = searchLocal,
                     !.localCount = Len(localResults),
                     !.registryCalls = IF searchRegistry THEN 1 ELSE 0,
                     !.registryCount = Len(chResults.results),
                     !.merged = uniqueResults,
                     !.localNumbers = NumbersOf(localResults),
                     !.registryNumbers = NumbersOf(chResults.results),
                     !.reply = IF searchRegistry THEN reply ELSE NoSearchReply,
                     !.errors = IF chResults.error = NULL THEN {}
                                ELSE {chResults.error}],
                companies |-> chResults.db,
                logged |-> TRUE]
        AfterLocal(localResults) ==
            LET searchRegistry ==
                    searchesRegistry(srcRaw, Len(localResults), cap)
            IN  CHOOSE out \in
                  {Finish(localResults, chResults, searchRegistry) :
                      chResults \in
                        {IF searchRegistry
                         THEN searchCompaniesHouse(db, q, cap, reply,
                                                   upsertOutcome, t)
                         ELSE NoRegistrySearch(db)}} : TRUE
    IN  IF ~SearchParamsParse(q, srcRaw, limitRaw, pageRaw)
        THEN rejected(400, "Invalid request parameters")
        ELSE IF u = NULL
        THEN rejected(401, "Authentication required")
        ELSE IF ~checkSearchLimit(log, u, tier, t)
        THEN QuotaExceeded(base, tier, db)
        ELSE CHOOSE out \in
               {AfterLocal(localResults) :
                   localResults \in
                     {IF searchLocal THEN search_companies(db, q, cap)
                      ELSE <<>>}} : TRUE

\* One request to the search route, handled at the current time.
SearchCompanies(u, productId, q, srcRaw, limitRaw, pageRaw, reply, upsertOutcome) ==
    \E out \in {SearchHandler(companies, search_queries, now, u, productId, q,
                              srcRaw, limitRaw, pageRaw, reply, upsertOutcome)} :
    /\ resp' = out.resp
    /\ companies' = out.companies
    /\ search_queries' =
          IF out.logged
          THEN logSearchQuery(search_queries, LogRow(u, "company_search", now))
          ELSE search_queries
    /\ UNCHANGED <<now, rlVars, peopleVars>>

(***************************************************************************)
(* Specification of the search route                                       *)
(***************************************************************************)
MaxSearchLogRows == 1   \* searches are taken while the log holds fewer rows

Products == {NULL, "prod_nexus_basic", "prod_nexus_pro", "prod_nexus_enterprise"}
SearchTerms == {<<"a">>}
\* the registry lists no company, or one more than a tier lets a search return
RegistryCounts ==
    {0} \cup {SUBSCRIPTION_LIMITS[tier].resultsPerSearch + 1 :
                 tier \in {"free", "basic"}}
SearchReplies ==
    {[kind |-> "ok", count |-> n, rev |-> "A"] : n \in RegistryCounts}
        \cup {[kind |-> "503", count |-> 0, rev |-> NULL]}
LimitParams == {<<1>>} \cup {<<n>> : n \in RegistryCounts \ {0}}
PageParams == {<<1>>, <<2>>}

\* the cache store after an earlier search cached what the registry lists
CachedCandidates ==
    cacheCompaniesHouseResults({SeedCompany},
        searchCompanies(<<"a">>, 50,
            [kind |-> "ok", count |-> SUBSCRIPTION_LIMITS.basic.resultsPerSearch + 1,
             rev |-> "A"]).items,
        ClockOrigin, "ok")

InitSearch ==
    /\ now = ClockOrigin
    /\ InitLimiters
    /\ companies \in {{}, {SeedCompany}, CachedCandidates}
    /\ search_queries = EmptyBag
    /\ persons = {} /\ company_officers = EmptyBag
    /\ resp = NoResponse

\* a request the handler answers before it searches, for one of its reasons:
\* a parameter that is absent or out of range, no session
SearchRejected ==
    \E bad \in {"q", "source", "limit", "limit51", "page", "user"} :
        SearchCompanies(IF bad = "user" THEN NULL ELSE "u1",
                        NULL,
                        IF bad = "q" THEN <<>> ELSE <<"a">>,
                        IF bad = "source" THEN NULL ELSE "both",
                        CASE bad = "limit" -> <<>> [] bad = "limit51" -> <<51>>
                          [] OTHER -> <<1>>,
                        IF bad = "page" THEN <<>> ELSE <<1>>,
                        NoSearchReply, "ok")

\* a request that reaches the quota check; the registry's answer and the
\* outcome of the upserts are drawn only when the handler gets that far
SearchRequest ==
    /\ BagCardinality(search_queries) < MaxSearchLogRows
    /\ \E u \in UserIds, p \in Products, q \in SearchTerms,
          src \in {"local", "companies_house", "both"},
          l \in LimitParams, pg \in PageParams :
            IF SearchHandler(companies, search_queries, now, u, p, q, src, l, pg,
                             NoSearchReply, "ok").resp.registryCalls = 0
            THEN SearchCompanies(u, p, q, src, l, pg, NoSearchReply, "ok")
            ELSE \E reply \in SearchReplies, up \in UpsertOutcomes :
                    /\ (reply.kind = "ok" /\ reply.count > 0) \/ up = "ok"
                    /\ SearchCompanies(u, p, q, src, l, pg, reply, up)

NextSearch == SearchRejected \/ SearchRequest

SpecSearch == InitSearch /\ [][NextSearch]_vars

MaxQuotaLogRows == 6    \* requests are taken while the log holds fewer rows

\* the first and the last millisecond of a UTC day, and the first of the next
QuotaInstants == {ClockOrigin + o : o \in {0, DAY_MS - 1, DAY_MS}}

InitQuota ==
    /\ now = ClockOrigin
    /\ InitLimiters
    /\ companies = {SeedCompany}
    /\ search_queries = EmptyBag
    /\ persons = {} /\ company_officers = EmptyBag
    /\ resp = NoResponse

QuotaSearch ==
    /\ BagCardinality(search_queries) < MaxQuotaLogRows
    /\ SearchCompanies("u1", NULL, <<"a">>, "local", <<1>>, <<1>>,
                       NoSearchReply, "ok")

QuotaDetails ==
    /\ BagCardinality(search_queries) < MaxQuotaLogRows
    /\ \E src \in {"local", "both"} :
          GetDetails("u1", <<"1", "2">>, src, NULL,
                     [kind |-> "ok", rev |-> "A"], "ok")

TickQuota ==
    /\ \E t \in QuotaInstants : t > now /\ now' = t
    /\ UNCHANGED <<rlVars, storeVars, resp>>

NextQuota == QuotaSearch \/ QuotaDetails \/ TickQuota

SpecQuota == InitQuota /\ [][NextQuota]_vars

\* the number of requests of a caller that the log holds for a UTC day
LoggedOnDay(u, day) ==
    LET OnDay(r) == r.user_id = u /\ UtcDate(r.created_at) = day
    IN  CountRows(search_queries, {r \in BagToSet(search_queries) : OnDay(r)})
\* ... before the last request was handled (an admitted request logs itself)
LoggedBeforeLast ==
    LoggedOnDay(resp.user, UtcDate(resp.at))
        - (IF resp.status = 200 THEN 1 ELSE 0)

\* the caller's requests of the UTC day of the last request were all searches
OnlySearchesThatDay ==
    \A r \in BagToSet(search_queries) :
        (r.user_id = resp.user /\ UtcDate(r.created_at) = UtcDate(resp.at))
            => r.query_type = "company_search"

\* C8 (as claimed): in a sequence of search requests of a caller whose tier
\* has the finite daily ceiling C, a search is admitted when fewer than C
\* searches of the caller were admitted earlier on the same UTC day and
\* denied when C were; the count starts again with the next UTC day.
C8_DailyCeiling ==
    (resp.op = "search" /\ resp.status \in {200, 429}
        /\ SUBSCRIPTION_LIMITS[resp.tier].searchesPerDay # -1
        /\ OnlySearchesThatDay) =>
        (resp.status = 200 <=>
            LoggedBeforeLast < SUBSCRIPTION_LIMITS[resp.tier].searchesPerDay)

\* C9 (as claimed): a details request of a caller whose requests logged
\* today already reach the daily ceiling of the caller's tier is denied, and
\* neither reads the cache store nor calls the registry.
C9_QuotaGateBeforeSynchronizer ==
    (resp.op = "details" /\ resp.status \notin {400, 401}
        /\ LoggedBeforeLast >=
              SUBSCRIPTION_LIMITS[getUserTier(NULL)].searchesPerDay) =>
        /\ resp.status = 429
        /\ ~resp.readLocal
        /\ resp.registryCalls = 0

(***************************************************************************)
(* Claims about the merged result of a search                              *)
(***************************************************************************)
\* C11: in the merged result of a both-sources search no two entries have
\* the same company number, every company found by either source is in it,
\* and the entry of a company that the local search found is the local one.
C11_MergeKeepsLocalEntry ==
    (resp.op = "search" /\ resp.status = 200 /\ resp.source = "both") =>
        /\ \A i, j \in DOMAIN resp.merged :
              i # j => resp.merged[i].company_number # resp.merged[j].company_number
        /\ NumbersOf(resp.merged) = resp.localNumbers \cup resp.registryNumbers
        /\ \A i \in DOMAIN resp.merged :
              resp.merged[i].company_number \in resp.localNumbers
                  => resp.merged[i].source = NULL

\* C11 witness: the local search and the registry both returned some company.
C11_Witness ==
    /\ resp.op = "search" /\ resp.status = 200 /\ resp.source = "both"
    /\ resp.localNumbers \cap resp.registryNumbers # {}
    /\ resp.registryNumbers \ resp.localNumbers # {}

\* C12: in a both-sources search, when the local search returns as many
\* candidates as the search may return, the registry is not queried and
\* every returned candidate is a local one.
C12_LocalResultsSuffice ==
    (resp.op = "search" /\ resp.status = 200 /\ resp.source = "both"
        /\ resp.localCount >= resp.actualLimit) =>
        /\ resp.registryCalls = 0
        /\ resp.registryNumbers = {}
        /\ \A i \in DOMAIN resp.results : resp.results[i].source = NULL
        /\ NumbersOf(resp.results) \subseteq resp.localNumbers

\* C12 witness: a both-sources search with limit 1 on a cache store that
\* holds a match returned that one local candidate.
C12_Witness ==
    /\ resp.op = "search" /\ resp.status = 200 /\ resp.source = "both"
    /\ resp.limit = 1 /\ resp.localCount = 1
    /\ Len(resp.results) = 1 /\ resp.results[1].source = NULL
    /\ resp.registryCalls = 0

(***************************************************************************)
(* BULK ROUTE  (POST /api/companies/bulk)                                  *)
(***************************************************************************)
TIER_LIMITS ==
    [free       |-> [bulkOperations |-> FALSE, maxBulkSize |-> 0],
     basic      |-> [bulkOperations |-> FALSE, maxBulkSize |-> 0],
     pro        |-> [bulkOperations |-> TRUE,  maxBulkSize |-> 25],
     enterprise |-> [bulkOperations |-> TRUE,  maxBulkSize |-> 100]]

\* the tier checkBulkAccess resolves: its tierMap knows pro and enterprise
BulkTier(productId) ==
    CASE productId = "prod_nexus_pro" -> "pro"
      [] productId = "prod_nexus_enterprise" -> "enterprise"
      [] OTHER -> "free"

\* mutant: every caller may run bulk operations
checkBulkAccessOpen(productId) ==
    [allowed |-> TRUE, tier |-> BulkTier(productId), maxSize |-> TIER_LIMITS.enterprise.maxBulkSize]
\* checkBulkAccess, from the product of the caller's active subscription
checkBulkAccess(productId) ==
    [allowed |-> TIER_LIMITS[BulkTier(productId)].bulkOperations, tier |-> BulkTier(productId), maxSize |-> TIER_LIMITS[BulkTier(productId)].maxBulkSize]

\* BulkSearchSchema.parse succeeds: 1..100 searches whose query has 1..100
\* characters, a limit of 1..10
BulkSearchParses(searches, options) ==
    /\ Len(searches) >= 1 /\ Len(searches) <= 100
    /\ \A i \in DOMAIN searches :
          Len(searches[i].text) >= 1 /\ Len(searches[i].text) <= 100
    /\ options.source \in {"local", "companies_house", "both"}
    /\ options.limit >= 1 /\ options.limit <= 10

\* BulkDetailsSchema.parse succeeds: 1..50 company numbers of at least one
\* character
BulkDetailsParses(companyNumbers, options) ==
    /\ Len(companyNumbers) >= 1 /\ Len(companyNumbers) <= 50
    /\ \A i \in DOMAIN companyNumbers : Len(companyNumbers[i].text) >= 1
    /\ options.source \in {"local", "companies_house", "both"}

\* What one pass of a bulk loop adds: entries pushed to results and to
\* errors (each tagged with the position of its item), the cache store it
\* leaves, the rows it logs, what it read and called.
ItemOutcome(results, errors, db, logged, readLocal, registryCalls) ==
    [results |-> results, errors |-> errors, db |-> db, logged |-> logged, readLocal |-> readLocal, registryCalls |-> registryCalls]

\* mutant: refresh does not keep the pass from reading the cache store
BulkDetailsItemLocalFirst(db, t, u, i, item, options) ==
    LET companyNumber == item.text
        tryLocal == options.source \in {"local", "both"}
        Decide(localCompany) ==
            LET fetch == localCompany = {} /\
                    (options.source \in {"companies_house", "both"} \/ options.refresh)
                Report(company) ==
                    ItemOutcome(
                        IF company # {}
                        THEN <<[item |-> i, companyNumber |-> companyNumber,
                                company |-> company,
                                source |-> IF localCompany # {}
                                              /\ (CHOOSE r \in localCompany : TRUE)
                                                    .last_synced_at > t - 60000
                                           THEN "companies_house" ELSE "local"]>>
                        ELSE <<>>,
                        IF company # {} THEN <<>>
                        ELSE <<[item |-> i, companyNumber |-> companyNumber,
                                error |-> "Company not found"]>>,
                        db,
                        SetToBag({LogRow(u, "bulk_company_details", t)}),
                        tryLocal,
                        IF fetch THEN 3 ELSE 0)
            IN  CHOOSE out \in
                  {Report(company) : company \in
                      {IF localCompany # {} THEN localCompany
                       ELSE IF fetch
                       THEN getCompleteProfile(companyNumber, item.reply).company
                       ELSE {}}} : TRUE
    IN  IF ~isValidCompanyNumber(companyNumber)
        THEN ItemOutcome(<<>>,
                 <<[item |-> i, companyNumber |-> companyNumber,
                    error |-> "Invalid company number format"]>>,
                 db, EmptyBag, FALSE, 0)
        ELSE CHOOSE out \in
               {Decide(localCompany) : localCompany \in
                   {IF tryLocal THEN getLocalCompany(db, companyNumber) ELSE {}}} :
               TRUE

\* one pass of the loop of handleBulkDetails, for the i-th company number
BulkDetailsItem(db, t, u, i, item, options) ==
    LET companyNumber == item.text
        tryLocal == ~options.refresh /\ options.source \in {"local", "both"}
        Decide(localCompany) ==
            LET fetch == localCompany = {} /\
                    (options.source \in {"companies_house", "both"} \/ options.refresh)
                Report(company) ==
                    ItemOutcome(
                        IF company # {}
                        THEN <<[item |-> i, companyNumber |-> companyNumber,
                                company |-> company,
                                source |-> IF localCompany # {}
                                              /\ (CHOOSE r \in localCompany : TRUE)
                                                    .last_synced_at > t - 60000
                                           THEN "companies_house" ELSE "local"]>>
                        ELSE <<>>,
                        IF company # {} THEN <<>>
                        ELSE <<[item |-> i, companyNumber |-> companyNumber,
                                error |-> "Company not found"]>>,
                        db,
                        SetToBag({LogRow(u, "bulk_company_details", t)}),
                        tryLocal,
                        IF fetch THEN 3 ELSE 0)
            IN  CHOOSE out \in
                  {Report(company) : company \in
                      {IF localCompany # {} THEN localCompany
                       ELSE IF fetch
                       THEN getCompleteProfile(companyNumber, item.reply).company
                       ELSE {}}} : TRUE
    IN  IF ~isValidCompanyNumber(companyNumber)
        THEN ItemOutcome(<<>>,
                 <<[item |-> i, companyNumber |-> companyNumber,
                    error |-> "Invalid company number format"]>>,
                 db, EmptyBag, FALSE, 0)
        ELSE CHOOSE out \in
               {Decide(localCompany) : localCompany \in
                   {IF tryLocal THEN getLocalCompany(db, companyNumber) ELSE {}}} :
               TRUE

\* cacheSearchResults: one upsert per registry item; a failed upsert is not
\* noticed
cacheSearchResults(db, results, t, upsertOutcome) ==
    cacheCompaniesHouseResults(db, results, t, upsertOutcome)

\* one pass of the loop of handleBulkSearch, for the i-th search
BulkSearchItem(db, t, u, i, search, options, upsertOutcome) ==
    LET searchLocal == options.source \in {"local", "both"}
        Registry(localResults) ==
            LET wanted == /\ options.source \in {"companies_house", "both"}
                          /\ Len(localResults) < options.limit
                Push(found) ==
                    LET mappedResults ==
                            [k \in DOMAIN found.items |->
                                [company_number |-> found.items[k].company_number,
                                 name |-> found.items[k].title,
                                 source |-> "companies_house"]]
                        searchResults == localResults \o mappedResults
                    IN  ItemOutcome(
                            <<[item |-> i, query |-> search.text,
                               results |-> Slice(searchResults, 0, options.limit),
                               resultCount |-> Len(searchResults)]>>,
                            IF wanted /\ found.threw
                            THEN <<[item |-> i, query |-> search.text,
                                    error |-> "Companies House error: Failed to search companies"]>>
                            ELSE <<>>,
                            IF wanted /\ ~found.threw /\ options.cacheMisses
                            THEN cacheSearchResults(db, found.items, t, upsertOutcome)
                            ELSE db,
                            SetToBag({LogRow(u, "bulk_search_name", t)}),
                            searchLocal,
                            IF wanted THEN 1 ELSE 0)
            IN  CHOOSE out \in
                  {Push(found) : found \in
                      {IF wanted
                       THEN searchCompanies(search.text,
                                options.limit - Len(localResults), search.reply)
                       ELSE [threw |-> FALSE, items |-> <<>>]}} : TRUE
    IN  CHOOSE out \in
          {Registry(localResults) : localResults \in
              {IF searchLocal
               THEN [k \in DOMAIN search_companies(db, search.text, options.limit) |->
                        [search_companies(db, search.text, options.limit)[k]
                            EXCEPT !.source = "local"]]
               ELSE <<>>}} : TRUE

\* one pass of a bulk loop, added to what the passes before it left
BulkPass(acc, t, u, operation, items, options, upsertOutcome, i) ==
    LET Add(out) ==
            ItemOutcome(acc.results \o out.results, acc.errors \o out.errors,
                        out.db, acc.logged (+) out.logged,
                        acc.readLocal \/ out.readLocal,
                        acc.registryCalls + out.registryCalls)
    IN  CHOOSE next \in
          {Add(out) : out \in
              {IF operation = "search"
               THEN BulkSearchItem(acc.db, t, u, i, items[i], options, upsertOutcome)
               ELSE BulkDetailsItem(acc.db, t, u, i, items[i], options)}} : TRUE

\* the passes for the items lo..hi, in order (the range is halved so that
\* long batches do not nest deeply)
RECURSIVE BulkPasses(_, _, _, _, _, _, _, _, _)
BulkPasses(acc, t, u, operation, items, options, upsertOutcome, lo, hi) ==
    IF lo > hi THEN acc
    ELSE IF lo = hi
    THEN BulkPass(acc, t, u, operation, items, options, upsertOutcome, lo)
    ELSE CHOOSE done \in
           {BulkPasses(half, t, u, operation, items, options, upsertOutcome,
                       ((lo + hi) \div 2) + 1, hi) :
               half \in {BulkPasses(acc, t, u, operation, items, options,
                                    upsertOutcome, lo, (lo + hi) \div 2)}} : TRUE

\* the loop of handleBulkSearch or handleBulkDetails over the items, in
\* order: what the passes pushed, the cache store and the rows logged
BulkLoop(db, t, u, operation, items, options, upsertOutcome) ==
    CHOOSE done \in
      {BulkPasses(start, t, u, operation, items, options, upsertOutcome,
                  1, Len(items)) :
          start \in {ItemOutcome(<<>>, <<>>, db, EmptyBag, FALSE, 0)}} : TRUE

\* POST: the response and what the handler leaves behind
BulkHandler(db, t, u, productId, body, upsertOutcome) ==
    LET access == checkBulkAccess(productId)
        base == [op |-> "bulk", at |-> t, user |-> u, product |-> productId,
                 tier |-> access.tier, operation |-> body.operation,
                 count |-> Len(body.items), items |-> body.items,
                 options |-> body.options,
                 status |-> 200, error |-> NULL, upgradeRequired |-> FALSE,
                 limit |-> 0, results |-> <<>>, errors |-> <<>>,
                 totalResults |-> 0, totalErrors |-> 0,
                 readLocal |-> FALSE, registryCalls |-> 0, logged |-> EmptyBag]
        rejected(code, msg) ==
            [resp |-> [base EXCEPT !.status = code, !.error = msg],
             companies |-> db, logged |-> EmptyBag]
        Respond(done) ==
            [resp |-> [base EXCEPT
                  !.results = done.results, !.errors = done.errors,
                  !.totalResults = Len(done.results),
                  !.totalErrors = Len(done.errors),
                  !.readLocal = done.readLocal,
                  !.registryCalls = done.registryCalls,
                  !.logged = done.logged],
             companies |-> done.db, logged |-> done.logged]
        Run ==
            CHOOSE out \in
              {Respond(done) : done \in
                  {BulkLoop(db, t, u, body.operation, body.items, body.options,
                            upsertOutcome)}} : TRUE
        tooMany(msg) ==
            [resp |-> [base EXCEPT !.status = 400, !.error = msg,
                                   !.limit = access.maxSize],
             companies |-> db, logged |-> EmptyBag]
    IN  IF u = NULL THEN rejected(401, "Authentication required")
        ELSE IF ~access.allowed
        THEN [resp |-> [base EXCEPT
                  !.status = 403,
                  !.error = "Bulk operations require Pro or Enterprise subscription",
                  !.upgradeRequired = TRUE],
              companies |-> db, logged |-> EmptyBag]
        ELSE IF body.operation = "search"
        THEN IF ~BulkSearchParses(body.items, body.options)
             THEN rejected(400, "Invalid request parameters")
             ELSE IF Len(body.items) > access.maxSize
             THEN tooMany("Too many searches")
             ELSE Run
        ELSE IF body.operation = "details"
        THEN IF ~BulkDetailsParses(body.items, body.options)
             THEN rejected(400, "Invalid request parameters")
             ELSE IF Len(body.items) > access.maxSize
             THEN tooMany("Too many companies")
             ELSE Run
        ELSE rejected(400, "Invalid operation")

\* One request to the bulk route, handled at the current time.
BulkPost(u, productId, body, upsertOutcome) ==
    \E out \in {BulkHandler(companies, now, u, productId, body, upsertOutcome)} :
    /\ resp' = out.resp
    /\ companies' = out.companies
    /\ search_queries' = search_queries (+) out.logged
    /\ UNCHANGED <<now, rlVars, peopleVars>>

(***************************************************************************)
(* Specification of the bulk route: one batch, from each cache store       *)
(***************************************************************************)
MaxBatchItems == 3   \* batches of mixed items have at most this many items

BulkReply(kind, count, rev) == [kind |-> kind, count |-> count, rev |-> rev]
NoBulkReply == BulkReply("none", 0, NULL)
\* a company number with what the registry answers for it; "1" is not a
\* company number, the empty string is not accepted by the schema
DetailItems ==
    {[text |-> <<"1", "2">>, reply |-> r] :
        r \in {BulkReply("ok", 0, "A"), BulkReply("404", 0, NULL),
               BulkReply("503", 0, NULL)}}
      \cup {[text |-> n, reply |-> NoBulkReply] : n \in {<<"1">>, <<>>}}
\* a query with what the registry answers for it
SearchItems ==
    {[text |-> <<"a">>, reply |-> r] :
        r \in {BulkReply("ok", 0, "A"), BulkReply("ok", 2, "A"),
               BulkReply("503", 0, NULL)}}
      \cup {[text |-> <<>>, reply |-> NoBulkReply]}
BulkOptions(source, limit, cacheMisses, refresh) ==
    [source |-> source, limit |-> limit, cacheMisses |-> cacheMisses, refresh |-> refresh]
\* the options the schemas fill in when the body has none
DefaultOptions == BulkOptions("both", 5, TRUE, FALSE)
Batches(kinds) ==
    UNION {[1..n -> kinds] : n \in 1..MaxBatchItems}
\* the sizes at which the tier table and the schemas decide
EdgeSizes ==
    {0, 50, 51} \cup {TIER_LIMITS[tier].maxBulkSize + d :
                         tier \in {"pro", "enterprise"}, d \in {0, 1}}

InitBulk ==
    /\ now = ClockOrigin
    /\ InitLimiters
    /\ companies \in {{}, {SeedCompany}}
    /\ search_queries = EmptyBag
    /\ persons = {} /\ company_officers = EmptyBag
    /\ resp = NoResponse

\* a batch of a few items of every kind, from a caller of a bulk tier
BulkMixed ==
    /\ resp = NoResponse
    /\ \E p \in {"prod_nexus_pro", "prod_nexus_enterprise"},
          src \in {"local", "companies_house", "both"} :
         \/ \E items \in Batches(DetailItems), refresh \in BOOLEAN :
               BulkPost("u1", p,
                   [operation |-> "details", items |-> items,
                    options |-> BulkOptions(src, 5, TRUE, refresh)], "ok")
         \/ \E items \in Batches(SearchItems), l \in {1, 5},
               cacheMisses \in BOOLEAN :
               BulkPost("u1", p,
                   [operation |-> "search", items |-> items,
                    options |-> BulkOptions(src, l, cacheMisses, FALSE)], "ok")

\* a batch of equal items whose size is at an edge, from any caller
BulkSized ==
    /\ resp = NoResponse
    /\ \E u \in {"u1", NULL}, p \in Products, n \in EdgeSizes,
          operation \in {"search", "details", "export"}, up \in UpsertOutcomes :
          BulkPost(u, p,
              [operation |-> operation,
               items |-> [i \in 1..n |->
                            IF operation = "search"
                            THEN [text |-> <<"a">>, reply |-> BulkReply("ok", 2, "A")]
                            ELSE [text |-> <<"1", "2">>,
                                  reply |-> BulkReply("ok", 0, "A")]],
               options |-> DefaultOptions], up)

NextBulk == BulkMixed \/ BulkSized

SpecBulk == InitBulk /\ [][NextBulk]_vars

(***************************************************************************)
(* Claims about the bulk route                                             *)
(***************************************************************************)
\* a batch of an admitted caller whose size every ceiling accepts
AdmittedBatch ==
    /\ resp.op = "bulk" /\ resp.user # NULL
    /\ resp.tier \in {"pro", "enterprise"}
    /\ resp.operation \in {"search", "details"}
    /\ resp.count >= 1 /\ resp.count <= TIER_LIMITS.pro.maxBulkSize
\* the positions of the items an entry of the list is about
ItemsOf(entries) == {entries[k].item : k \in DOMAIN entries}
\* the item failed: its text is empty, it is not a company number, or the
\* registry was asked about it and did not answer with a company
FailedItems ==
    {i \in DOMAIN resp.items :
        \/ resp.items[i].text = <<>>
        \/ resp.operation = "details" /\ ~isValidCompanyNumber(resp.items[i].text)
        \/ resp.items[i].reply.kind \in {"404", "503"}}

\* C13 (as claimed): in a batch, the failure of an item (invalid identifier,
\* registry error, not found) never prevents the other items from being
\* processed and reported, and the batch response is never an overall error
\* because of an item failure.
C13_ItemFailureIsolated ==
    AdmittedBatch =>
        /\ resp.status = 200
        /\ \A i \in DOMAIN resp.items :
              i \in ItemsOf(resp.results) \cup ItemsOf(resp.errors)

\* the entries of the list are about items in the order of the batch
InItemOrder(entries) ==
    \A j, k \in DOMAIN entries : j < k => entries[j].item <= entries[k].item

\* C14 (as claimed): every item of an accepted batch has exactly one outcome,
\* success or failure, the outcomes are reported in the order of the items,
\* succeeded + failed equals the number of items, and an item that triggered
\* a registry error is counted as failed and not also as succeeded.
C14_OneOutcomePerItem ==
    (resp.op = "bulk" /\ resp.status = 200) =>
        /\ resp.totalResults + resp.totalErrors = resp.count
        /\ \A i \in DOMAIN resp.items :
              (i \in ItemsOf(resp.results)) # (i \in ItemsOf(resp.errors))
        /\ InItemOrder(resp.results) /\ InItemOrder(resp.errors)
        /\ \A k \in DOMAIN resp.errors :
              resp.errors[k].item \notin ItemsOf(resp.results)

\* C15: a batch request of a caller whose tier is free or basic is rejected
\* with the feature-not-available answer (403, upgrade required) before any
\* item is processed, logged or sent to the registry; callers of the pro and
\* enterprise tiers are not rejected for their tier.
C15_BulkNeedsProOrEnterprise ==
    (resp.op = "bulk" /\ resp.user # NULL) =>
        /\ getUserTier(resp.product) \in {"free", "basic"} =>
              /\ resp.status = 403 /\ resp.upgradeRequired
              /\ resp.results = <<>> /\ resp.errors = <<>>
              /\ resp.logged = EmptyBag /\ search_queries = EmptyBag
              /\ ~resp.readLocal /\ resp.registryCalls = 0
              /\ companies \in {{}, {SeedCompany}}
        /\ getUserTier(resp.product) \in {"pro", "enterprise"} =>
              /\ resp.status # 403 /\ ~resp.upgradeRequired
C15_Witness ==
    /\ resp.op = "bulk" /\ resp.user # NULL
    /\ resp.product = "prod_nexus_basic" /\ resp.operation = "search"
    /\ resp.count = TIER_LIMITS.pro.maxBulkSize /\ resp.status = 403

\* C16 (as claimed): a batch of an admitted caller is accepted exactly when
\* its number of items is between 1 and the ceiling of the caller's tier (25
\* for pro, 100 for enterprise), for search batches and for detail batches
\* alike; any other batch is rejected without processing an item.
C16_BatchSizeCeiling ==
    (/\ resp.op = "bulk" /\ resp.user # NULL
     /\ resp.tier \in {"pro", "enterprise"}
     /\ resp.operation \in {"search", "details"}
     /\ \A i \in DOMAIN resp.items : resp.items[i].text # <<>>) =>
        /\ resp.status = 200 <=>
              (resp.count >= 1 /\ resp.count <= TIER_LIMITS[resp.tier].maxBulkSize)
        /\ resp.status # 200 =>
              /\ resp.results = <<>> /\ resp.errors = <<>>
              /\ resp.logged = EmptyBag /\ resp.registryCalls = 0

(***************************************************************************)
(* Claims about the write-back of a company                                *)
(***************************************************************************)
\* the rows of the cache store for the company number of the last request
RowsOfLast == {r \in companies : r.company_number = cleanCompanyNumber(resp.number)}

\* C17: the cache store never holds two rows with the same company number,
\* and after a write-back the one row of the company holds the attributes
\* of the record applied last, whether or not the same record had been
\* applied before.
C17_UpsertIdempotent ==
    /\ \A r1, r2 \in companies : r1.company_number = r2.company_number => r1 = r2
    /\ (resp.op = "details" /\ resp.upsert = "ok") =>
          RowsOfLast =
              {[company_number |-> cleanCompanyNumber(resp.number),
                name |-> RegistryName(cleanCompanyNumber(resp.number), resp.reply.rev),
                sic_codes |-> <<resp.reply.rev>>,
                last_synced_at |-> resp.at]}
\* the record written had been written before, by an earlier request
C17_Witness ==
    /\ resp.op = "details" /\ resp.upsert = "ok"
    /\ \E old \in resp.stored :
          /\ old.last_synced_at # NullTs
          /\ old.last_synced_at < resp.at
          /\ old.name = RegistryName(cleanCompanyNumber(resp.number), resp.reply.rev)
    /\ Cardinality(RowsOfLast) = 1

(***************************************************************************)
(* WRITE-BACK OF OFFICERS AND PSCs  (cacheOfficers, cachePSCs)             *)
(***************************************************************************)
Lower(ch) == CASE ch = "A" -> "a" [] ch = "B" -> "b" [] OTHER -> ch
toLowerCase(str) == [i \in DOMAIN str |-> Lower(str[i])]
\* String.prototype.trim
trim(str) ==
    LET inked == {i \in DOMAIN str : str[i] # " "} IN
    IF inked = {} THEN <<>>
    ELSE SubSeq(str, CHOOSE i \in inked : \A j \in inked : i <= j,
                     CHOOSE i \in inked : \A j \in inked : j <= i)

\* the column sets of table persons that carry a UNIQUE constraint or a
\* unique index: the primary key (idx_persons_normalized_name is a plain
\* index)
PersonsUnique == {{"id"}}
\* INSERT ... ON CONFLICT (normalized_name) DO UPDATE, as it runs when the
\* conflict target is backed by a unique index; the new row's id is fresh
MergePerson(tbl, personData) ==
    LET old == {r \in tbl : r.normalized_name = personData.normalized_name}
        row == [id |-> IF old = {} THEN Cardinality(tbl) + 1
                       ELSE (CHOOSE r \in old : TRUE).id,
                full_name |-> personData.full_name,
                normalized_name |-> personData.normalized_name]
    IN  [error |-> FALSE, persons |-> (tbl \ old) \cup {row}, person |-> {row}]
\* .from('persons').upsert(personData, {onConflict: 'normalized_name'})
\* .select().single(): the statement is refused when no unique index matches
\* the conflict target
upsertPerson(tbl, personData) ==
    IF {"normalized_name"} \in PersonsUnique
    THEN MergePerson(tbl, personData)
    ELSE [error |-> TRUE, persons |-> tbl, person |-> {}]

\* mutant: the appointment upsert overwrites the row that holds the key
upsertOfficerOverwriting(tbl, officerData) ==
    LET Dup(r) == /\ officerData.appointed_on # NULL
                  /\ r.company_id = officerData.company_id
                  /\ r.person_id = officerData.person_id
                  /\ r.role = officerData.role
                  /\ r.appointed_on = officerData.appointed_on
        kept == {r \in BagToSet(tbl) : ~Dup(r)}
    IN  [r \in kept |-> tbl[r]] (+) SetToBag({officerData})

\* .from('company_officers').upsert(officerData, {onConflict:
\* 'company_id,person_id,role,appointed_on', ignoreDuplicates: true}):
\* UNIQUE(company_id, person_id, role, appointed_on) sees two rows as
\* duplicates when the four columns are equal and none is null
upsertOfficer(tbl, officerData) ==
    IF /\ officerData.appointed_on # NULL
       /\ \E r \in BagToSet(tbl) :
             /\ r.company_id = officerData.company_id
             /\ r.person_id = officerData.person_id
             /\ r.role = officerData.role
             /\ r.appointed_on = officerData.appointed_on
    THEN tbl
    ELSE tbl (+) SetToBag({officerData})

\* new Date(d).toISOString().split('T')[0] of a registry date YYYY-MM-DD, or
\* null
ToDateColumn(d) == d

\* one pass of the loop of cacheOfficers or cachePSCs: the person, then the
\* appointment; a refused person upsert skips the appointment
CachePerson(store, companyId, name, role, startDate, endDate) ==
    LET Appoint(saved) ==
            IF saved.error THEN store
            ELSE [persons |-> saved.persons,
                  company_officers |->
                      upsertOfficer(store.company_officers,
                          [company_id |-> companyId,
                           person_id |-> (CHOOSE p \in saved.person : TRUE).id,
                           role |-> role,
                           appointed_on |-> ToDateColumn(startDate),
                           resigned_on |-> ToDateColumn(endDate)])]
    IN  CHOOSE next \in
          {Appoint(saved) : saved \in
              {upsertPerson(store.persons,
                   [full_name |-> name,
                    normalized_name |-> trim(toLowerCase(name))])}} : TRUE

RECURSIVE cacheOfficers(_, _, _)
cacheOfficers(store, companyId, officers) ==
    IF officers = <<>> THEN store
    ELSE CHOOSE done \in
           {cacheOfficers(next, companyId, Tail(officers)) : next \in
               \* every officer here is a director (mapOfficerRole)
               {CachePerson(store, companyId, Head(officers).name, "director",
                            Head(officers).appointed_on,
                            Head(officers).resigned_on)}} : TRUE

RECURSIVE cachePSCs(_, _, _)
cachePSCs(store, companyId, pscs) ==
    IF pscs = <<>> THEN store
    ELSE CHOOSE done \in
           {cachePSCs(next, companyId, Tail(pscs)) : next \in
               {CachePerson(store, companyId, Head(pscs).name,
                            "person_of_significant_control",
                            Head(pscs).notified_on, Head(pscs).ceased_on)}} : TRUE

\* the rows of companies without the time of their last synchronisation
WithoutSyncTime(db) == {[r EXCEPT !.last_synced_at = NullTs] : r \in db}

\* cacheCompanyData with the officers and PSCs of the profile: the company
\* is upserted, then Promise.all([cacheOfficers, cachePSCs]) with the saved
\* company's id (the company number stands for it)
WriteBack(profile, upsertOutcome) ==
    \E out \in {cacheCompanyData(companies, profile, now, upsertOutcome)} :
    \E people \in
        {IF out.threw
         THEN [persons |-> persons, company_officers |-> company_officers]
         ELSE cachePSCs(
                  cacheOfficers([persons |-> persons,
                                 company_officers |-> company_officers],
                                (CHOOSE c \in profile.company : TRUE).company_number,
                                profile.officers),
                  (CHOOSE c \in profile.company : TRUE).company_number,
                  profile.pscs)} :
    /\ companies' = out.db
    /\ persons' = people.persons
    /\ company_officers' = people.company_officers
    /\ resp' = [op |-> "writeback", at |-> now, profile |-> profile,
                upsert |-> upsertOutcome,
                replay |-> /\ resp.op = "writeback" /\ resp.upsert = "ok"
                           /\ resp.profile = profile,
                before |-> [companies |-> WithoutSyncTime(companies),
                            persons |-> persons,
                            company_officers |-> company_officers]]
    /\ UNCHANGED <<now, rlVars, search_queries>>

(***************************************************************************)
(* Specification of the write-back: profiles applied one after another     *)
(***************************************************************************)
MaxAppointmentRows == 3  \* profiles are applied while the table has fewer rows

OfficerNames == {<<"A", "l">>, <<"a", "l", " ">>}
AppointmentDates == {NULL, "2020-01-01"}
OfficerLists ==
    {<<>>} \cup {<<[name |-> n, appointed_on |-> d, resigned_on |-> NULL]>> :
                    n \in OfficerNames, d \in AppointmentDates}
PSCLists ==
    {<<>>} \cup {<<[name |-> <<"B", "o">>, notified_on |-> d, ceased_on |-> NULL]>> :
                    d \in AppointmentDates}
Profiles ==
    {[company |-> getCompany(<<"1", "2">>, [kind |-> "ok", rev |-> v]).value,
      officers |-> o, pscs |-> p] :
        v \in Revisions, o \in OfficerLists, p \in PSCLists}

\* a person and an appointment as the seed data has them
SeedPerson == [id |-> 1, full_name |-> <<"A", "l">>, normalized_name |-> <<"a", "l">>]
SeedOfficer ==
    [company_id |-> <<"1", "2">>, person_id |-> 1, role |-> "director",
     appointed_on |-> "2020-01-01", resigned_on |-> NULL]

InitWriteBack ==
    /\ now = ClockOrigin
    /\ InitLimiters
    /\ companies \in {{}, {SeedCompany}}
    /\ search_queries = EmptyBag
    /\ \/ persons = {} /\ company_officers = EmptyBag
       \/ persons = {SeedPerson} /\ company_officers = SetToBag({SeedOfficer})
    /\ resp = NoResponse

ApplyProfile ==
    /\ BagCardinality(company_officers) < MaxAppointmentRows
    /\ \E profile \in Profiles, up \in UpsertOutcomes : WriteBack(profile, up)

NextWriteBack == ApplyProfile \/ Tick

SpecWriteBack == InitWriteBack /\ [][NextWriteBack]_vars

HttpResponse(status, body) == [status |-> status, body |-> body]
HttpResponses ==
    {HttpResponse(0, "none"), HttpResponse(200, "payload"), HttpResponse(200, "json")}
        \cup {HttpResponse(st, b) : st \in {404, 429, 503}, b \in {"json", "text"}}

\* makeRequest: resolves with the response whatever its status; rejects
\* only when fetch rejects
makeRequest(response) == [threw |-> response.status = 0, response |-> response]

Fulfilled(value) ==
    [status |-> "fulfilled", value |-> value, message |-> NULL, statusCode |-> 0]
Rejected(message, statusCode) ==
    [status |-> "rejected", value |-> <<>>, message |-> message, statusCode |-> statusCode]

\* what the registry lists in a payload
PayloadItems(kind) == <<[name |-> <<"A", "l">>, kind |-> kind]>>

\* the try block shared by searchCompanies, getOfficers and getPSCs:
\* response.json(), "if (!data.items) return []", the items; every exception
\* becomes CompaniesHouseError(message, 500)
ListCall(response, emptyOn404, kind, message) ==
    IF makeRequest(response).threw THEN Rejected(message, 500)
    ELSE IF emptyOn404 /\ response.status = 404 THEN Fulfilled(<<>>)
    ELSE IF response.body = "text" THEN Rejected(message, 500)
    ELSE IF response.body = "json" THEN Fulfilled(<<>>)
    ELSE Fulfilled(PayloadItems(kind))

\* searchCompanies, from the response to its request
searchCompaniesCall(query, response) ==
    ListCall(response, FALSE, "company", "Failed to search companies")
\* getOfficers
getOfficers(companyNumber, response) ==
    ListCall(response, TRUE, "officer", "Failed to fetch officers data")
\* getPSCs
getPSCs(companyNumber, response) ==
    ListCall(response, TRUE, "psc", "Failed to fetch PSCs data")
\* getCompany: a 404 throws CompaniesHouseError(404); a body that is not
\* JSON or does not satisfy CompaniesHouseCompanySchema, or a rejected
\* fetch, throws CompaniesHouseError(500); the value is a set of one company
getCompanyCall(companyNumber, response) ==
    IF makeRequest(response).threw
    THEN [Rejected("Failed to fetch company data", 500) EXCEPT !.value = {}]
    ELSE IF response.status = 404
    THEN [Rejected("Company not found", 404) EXCEPT !.value = {}]
    ELSE IF response.body # "payload"
    THEN [Rejected("Failed to fetch company data", 500) EXCEPT !.value = {}]
    ELSE Fulfilled(getCompany(companyNumber, [kind |-> "ok", rev |-> "A"]).value)

\* mutant: no error is reported
getCompleteProfileSilent(company, officers, pscs) ==
    [company |-> IF company.status = "fulfilled" THEN company.value ELSE {},
     officers |-> IF officers.status = "fulfilled" THEN officers.value ELSE <<>>,
     pscs |-> IF pscs.status = "fulfilled" THEN pscs.value ELSE <<>>,
     errors |-> [company |-> NULL, officers |-> NULL, pscs |-> NULL]]
\* getCompleteProfile, from the three settled promises
getCompleteProfileOf(company, officers, pscs) ==
    [company |-> IF company.status = "fulfilled" THEN company.value ELSE {},
     officers |-> IF officers.status = "fulfilled" THEN officers.value ELSE <<>>,
     pscs |-> IF pscs.status = "fulfilled" THEN pscs.value ELSE <<>>,
     errors |->
        [company |-> IF company.status = "rejected" THEN company.message ELSE NULL,
         officers |-> IF officers.status = "rejected" THEN officers.message ELSE NULL,
         pscs |-> IF pscs.status = "rejected" THEN pscs.message ELSE NULL]]

(***************************************************************************)
(* Specification of the registry client: calls answered by any response    *)
(***************************************************************************)
ClientCalls == {"searchCompanies", "getCompany", "getOfficers", "getPSCs"}

\* mutant: a call that failed is sent again
AfterSettledResend(out) == IF out.status = "rejected" THEN "resend" ELSE "settled"
\* what a method does once its request has settled: it returns the value or
\* throws the CompaniesHouseError; none of the catch blocks calls makeRequest
\* or acquire again
AfterSettled(out) == "settled"

\* a method of the client is called: await this.rateLimiter.acquire()
ClientStart ==
    /\ resp.op \notin {"client-pending", "profile-pending"}
    /\ \E call \in ClientCalls :
          resp' = [op |-> "client-pending", call |-> call, inflight |-> FALSE,
                   slots |-> 0, sent |-> 0]
    /\ UNCHANGED <<now, rlVars, storeVars>>

\* acquire() has returned: the slot is taken and makeRequest sends the
\* request
ClientSend ==
    /\ resp.op = "client-pending" /\ ~resp.inflight
    /\ resp' = [resp EXCEPT !.inflight = TRUE, !.slots = @ + 1, !.sent = @ + 1]
    /\ UNCHANGED <<now, rlVars, storeVars>>

\* the request settles and the method returns or throws
ClientCall ==
    /\ resp.op = "client-pending" /\ resp.inflight
    /\ \E response \in HttpResponses :
      \E out \in
        {CASE resp.call = "searchCompanies" -> searchCompaniesCall(<<"a">>, response)
           [] resp.call = "getCompany" -> getCompanyCall(<<"1", "2">>, response)
           [] resp.call = "getOfficers" -> getOfficers(<<"1", "2">>, response)
           [] resp.call = "getPSCs" -> getPSCs(<<"1", "2">>, response)} :
        resp' = IF AfterSettled(out) = "resend"
                THEN [resp EXCEPT !.inflight = FALSE]
                ELSE [op |-> "client", call |-> resp.call, response |-> response,
                      status |-> out.status, statusCode |-> out.statusCode,
                      message |-> out.message,
                      returned |-> IF resp.call = "getCompany"
                                   THEN Cardinality(out.value)
                                   ELSE Len(out.value),
                      slots |-> resp.slots, sent |-> resp.sent]
    /\ UNCHANGED <<now, rlVars, storeVars>>

\* getCompleteProfile.  The three calls are made before any is awaited (the
\* array handed to Promise.allSettled), they settle in any order, and the
\* profile is returned when all have settled.
ProfileParts == {"company", "officers", "pscs"}
Unsettled == [status |-> "pending", value |-> <<>>, message |-> NULL, statusCode |-> 0]
ProfileStart ==
    /\ resp.op \notin {"client-pending", "profile-pending"}
    /\ resp' = [op |-> "profile-pending", pending |-> ProfileParts,
                inflight |-> {},
                responses |-> [part \in ProfileParts |-> HttpResponse(0, "none")],
                settled |-> [part \in ProfileParts |-> Unsettled],
                order |-> <<>>, slots |-> 0, sent |-> 0]
    /\ UNCHANGED <<now, rlVars, storeVars>>

\* acquire() has returned to one of the three calls, which sends its request
ProfileSend ==
    /\ resp.op = "profile-pending"
    /\ \E part \in resp.pending \ resp.inflight :
          resp' = [resp EXCEPT !.inflight = @ \cup {part},
                               !.slots = @ + 1, !.sent = @ + 1]
    /\ UNCHANGED <<now, rlVars, storeVars>>

ProfileSettle ==
    /\ resp.op = "profile-pending"
    /\ \E part \in resp.inflight, response \in HttpResponses :
       \E out \in
           {CASE part = "company" -> getCompanyCall(<<"1", "2">>, response)
              [] part = "officers" -> getOfficers(<<"1", "2">>, response)
              [] part = "pscs" -> getPSCs(<<"1", "2">>, response)} :
          resp' = IF AfterSettled(out) = "resend"
                  THEN [resp EXCEPT !.inflight = @ \ {part}]
                  ELSE [resp EXCEPT !.pending = @ \ {part},
                                    !.inflight = @ \ {part},
                                    !.responses[part] = response,
                                    !.settled[part] = out,
                                    !.order = Append(@, part)]
    /\ UNCHANGED <<now, rlVars, storeVars>>

ProfileReturn ==
    /\ resp.op = "profile-pending" /\ resp.pending = {}
    /\ resp' = [op |-> "profile", responses |-> resp.responses,
                settled |-> resp.settled, order |-> resp.order,
                slots |-> resp.slots, sent |-> resp.sent,
                profile |-> getCompleteProfileOf(resp.settled.company,
                                resp.settled.officers, resp.settled.pscs)]
    /\ UNCHANGED <<now, rlVars, storeVars>>

NextClient ==
    \/ ClientStart \/ ClientSend \/ ClientCall
    \/ ProfileStart \/ ProfileSend \/ ProfileSettle \/ ProfileReturn

SpecClient == InitRL /\ [][NextClient]_vars

\* C19: getCompleteProfile makes its three calls whatever the outcome of the
\* others and never fails as a whole: for each of company, officers and PSCs
\* it returns the data when the call succeeded, nothing (null, or an empty
\* list) when it failed, and an error tag that is non-null exactly when the
\* call failed.
C19_ProfileSettlesEachCall ==
    resp.op = "profile" =>
        /\ Len(resp.order) = 3
        /\ \A part \in {"company", "officers", "pscs"} :
              /\ resp.settled[part].status = "rejected"
                    <=> resp.profile.errors[part] # NULL
              /\ resp.settled[part].status = "fulfilled"
                    => resp.profile[part] = resp.settled[part].value
        /\ resp.settled.company.status = "rejected" => resp.profile.company = {}
        /\ resp.settled.officers.status = "rejected" => resp.profile.officers = <<>>
        /\ resp.settled.pscs.status = "rejected" => resp.profile.pscs = <<>>
C19_Witness ==
    /\ resp.op = "profile" /\ resp.order = <<"pscs", "officers", "company">>
    /\ resp.settled.company.status = "fulfilled" /\ resp.profile.company # {}
    /\ resp.settled.officers.status = "rejected"
    /\ resp.profile.errors.officers = "Failed to fetch officers data"
    /\ resp.settled.pscs.status = "fulfilled" /\ resp.profile.pscs # <<>>
    /\ resp.profile.errors.pscs = NULL

\* C20 (as claimed): for each operation of the client, a response that is
\* neither 2xx nor 404, or no response at all, yields an error that carries
\* the upstream status when one was received, never a successful empty
\* result; a 404 yields an absent or empty result.
C20_UpstreamErrorCarriesStatus ==
    resp.op = "client" =>
        /\ resp.response.status \notin {200, 404} =>
              /\ resp.status = "rejected"
              /\ resp.response.status # 0 => resp.statusCode = resp.response.status
        /\ resp.response.status = 404 =>
              IF resp.call = "getCompany"
              THEN resp.status = "rejected" /\ resp.statusCode = 404
              ELSE resp.status = "fulfilled" /\ resp.returned = 0

\* C21: one invocation of an operation of the client takes one rate-limiter
\* slot and sends at most one request to the registry, three of each for
\* getCompleteProfile, whatever the outcome: a failed request is not sent
\* again.
C21_OneSlotOneRequest ==
    /\ resp.op \in {"client-pending", "client"} =>
          /\ resp.slots <= 1 /\ resp.sent <= 1
          /\ resp.op = "client" => resp.slots = 1
    /\ resp.op \in {"profile-pending", "profile"} =>
          /\ resp.slots <= 3 /\ resp.sent <= 3
          /\ resp.op = "profile" => resp.slots = 3
C21_Witness ==
    /\ resp.op = "client" /\ resp.call = "getOfficers"
    /\ resp.status = "rejected" /\ resp.response.status = 503
    /\ resp.sent = 1 /\ resp.slots = 1

(***************************************************************************)
(* Specification of concurrent synchronisations of one company: every      *)
(* request fetches the profile, upserts it (one statement), reads it back  *)
(***************************************************************************)
NumSyncs == 2       \* concurrent requests for the same company number

Syncs == 1..NumSyncs
SyncNumber == <<"1", "2">>
SyncIdle == [pc |-> "idle", rev |-> NULL, at |-> NullTs, returned |-> {}]

InitSync ==
    /\ now = ClockOrigin
    /\ InitLimiters
    /\ companies \in {{}, {SeedCompany}}
    /\ search_queries = EmptyBag
    /\ persons = {} /\ company_officers = EmptyBag
    /\ resp = [op |-> "sync", procs |-> [p \in Syncs |-> SyncIdle]]

\* getCompleteProfile resolves with a revision of the company
SyncFetch(p) ==
    /\ resp.procs[p].pc = "idle"
    /\ \E v \in Revisions :
          resp' = [resp EXCEPT !.procs[p].pc = "fetched", !.procs[p].rev = v]
    /\ UNCHANGED <<now, rlVars, storeVars>>

\* cacheCompanyData: the upsert of the fetched company
SyncWrite(p) ==
    /\ resp.procs[p].pc = "fetched"
    /\ \E out \in
          {cacheCompanyData(companies,
               getCompleteProfile(SyncNumber,
                   [kind |-> "ok", rev |-> resp.procs[p].rev]),
               now, "ok")} :
          /\ companies' = out.db
          /\ resp' = [resp EXCEPT !.procs[p].pc = "written", !.procs[p].at = now]
    /\ UNCHANGED <<now, rlVars, search_queries, peopleVars>>

\* cacheCompanyData: "return await getLocalCompany(...)"
SyncReadBack(p) ==
    /\ resp.procs[p].pc = "written"
    /\ resp' = [resp EXCEPT !.procs[p].pc = "done",
                            !.procs[p].returned = getLocalCompany(companies, SyncNumber)]
    /\ UNCHANGED <<now, rlVars, storeVars>>

NextSync ==
    \/ \E p \in Syncs : SyncFetch(p) \/ SyncWrite(p) \/ SyncReadBack(p)
    \/ Tick

SpecSync == InitSync /\ [][NextSync]_vars

\* the row cacheCompanyData writes for the fetch of request p
RowOfSync(p) ==
    [company_number |-> SyncNumber,
     name |-> RegistryName(SyncNumber, resp.procs[p].rev),
     sic_codes |-> <<resp.procs[p].rev>>,
     last_synced_at |-> resp.procs[p].at]
Writers == {p \in Syncs : resp.procs[p].pc \in {"written", "done"}}

\* C22: under any interleaving of concurrent synchronisations of one company
\* number, the cache store has exactly one row for it once a request has
\* written, and that row is, as a whole, the row of one of the fetches (the
\* one written last), never a combination of two fetches.
C22_LastWriterWins ==
    (resp.op = "sync" /\ Writers # {}) =>
        /\ Cardinality({r \in companies : r.company_number = SyncNumber}) = 1
        /\ \E p \in Writers :
              /\ RowOfSync(p) \in companies
              /\ \A q \in Writers : resp.procs[q].at <= resp.procs[p].at
\* two requests fetched different revisions and wrote at different times,
\* the one that fetched first writing last
C22_Witness ==
    /\ resp.op = "sync"
    /\ resp.procs[1].pc = "done" /\ resp.procs[2].pc = "done"
    /\ resp.procs[1].rev = "A" /\ resp.procs[2].rev = "B"
    /\ resp.procs[2].at < resp.procs[1].at
    /\ RowOfSync(1) \in companies
    /\ resp.procs[2].returned = {RowOfSync(2)}

(***************************************************************************)
(* Specification of one request, single or bulk, for a company whose row   *)
(* in the cache store is absent, never synchronised, or fresh              *)
(***************************************************************************)
\* the row a write-back at ClockOrigin left
FreshCompany == [SeedCompany EXCEPT !.last_synced_at = ClockOrigin]

InitOne ==
    /\ now = ClockOrigin
    /\ InitLimiters
    /\ companies \in {{}, {SeedCompany}, {FreshCompany}}
    /\ search_queries = EmptyBag
    /\ persons = {} /\ company_officers = EmptyBag
    /\ resp = NoResponse

OneDetails ==
    /\ resp = NoResponse
    /\ \E src \in {"local", "companies_house", "both"},
          refresh \in RefreshParams \cup {"true"},
          reply \in CompanyReplies, up \in UpsertOutcomes :
          GetDetails("u1", <<"1", "2">>, src, refresh, reply, up)

OneBulkDetails ==
    /\ resp = NoResponse
    /\ \E src \in {"local", "companies_house", "both"}, refresh \in BOOLEAN,
          kind \in {"ok", "404", "503"} :
          BulkPost("u1", "prod_nexus_pro",
              [operation |-> "details",
               items |-> <<[text |-> <<"1", "2">>,
                            reply |-> BulkReply(kind, 0,
                                         IF kind = "ok" THEN "B" ELSE NULL)]>>,
               options |-> BulkOptions(src, 5, TRUE, refresh)], "ok")

NextOne == OneDetails \/ OneBulkDetails \/ Tick

SpecOne == InitOne /\ [][NextOne]_vars

\* C23: with refresh set, a details request and a details item of a batch
\* fetch from the registry even when the local row is fresh, and do not
\* read the local row instead.
C23_RefreshAlwaysFetches ==
    /\ (resp.op = "details" /\ resp.refresh /\ resp.status \in {200, 404}) =>
          /\ resp.registryCalls > 0
          /\ ~resp.readLocal
          /\ resp.status = 200 => resp.upsert = "ok"
    /\ (/\ resp.op = "bulk" /\ resp.operation = "details"
        /\ resp.status = 200 /\ resp.options.refresh) =>
          /\ resp.registryCalls = 3 * resp.count
          /\ ~resp.readLocal
          /\ \A k \in DOMAIN resp.results :
                resp.results[k].company =
                    getCompleteProfile(resp.results[k].companyNumber,
                        resp.items[resp.results[k].item].reply).company
C23_Witness ==
    /\ resp.op = "bulk" /\ resp.operation = "details" /\ resp.options.refresh
    /\ resp.options.source = "both"
    /\ \E r \in companies : r.company_number = <<"1", "2">> /\ IsFresh(r, resp.at)
    /\ resp.registryCalls = 3 /\ resp.totalResults = 1

\* C24: a search denied for the daily quota is answered with the quota error
\* (429, "Daily search limit exceeded") carrying the caller's tier and its
\* daily ceiling; the denied request calls no registry, reads no cache
\* store, and leaves the cache store and the request log as they were.
QuotaDenied(r) == r.op = "search" /\ r.status = 429
C24_QuotaDenialHasNoEffect ==
    /\ [](QuotaDenied(resp) =>
            /\ resp.error = "Daily search limit exceeded"
            /\ resp.tier = getUserTier(NULL)
            /\ resp.quotaLimit = SUBSCRIPTION_LIMITS[resp.tier].searchesPerDay
            /\ resp.quotaLimit > 0
            /\ resp.registryCalls = 0 /\ ~resp.readLocal)
    /\ [][(QuotaDenied(resp') /\ now' = now) =>
            /\ companies' = companies
            /\ search_queries' = search_queries
            /\ persons' = persons /\ company_officers' = company_officers]_vars
C24_Witness ==
    /\ QuotaDenied(resp)
    /\ resp.at = now
    /\ BagCardinality(search_queries) = SUBSCRIPTION_LIMITS[resp.tier].searchesPerDay

(***************************************************************************)
(* Claims about concurrent calls of acquire()                              *)
(***************************************************************************)
\* the calls made on the limiter of service s that have returned
Returned(s) == {c \in Calls : svc[c] = s /\ pc[c] = "done"}

\* C25: under any interleaving of acquire() calls on one RateLimiter, every
\* call that has returned has added exactly one timestamp to the list and a
\* suspended call has added none, and the list never holds more than
\* maxRequests timestamps: two callers never both take the last free slot.
C25_OneTimestampPerCall ==
    \A s \in Services :
        /\ Len(admitted[s]) = Cardinality(Returned(s))
        /\ Len(requests[s]) <= maxRequests
        /\ Len(requests[s]) <= Len(admitted[s])
        /\ requests[s] = SubSeq(admitted[s],
                                Len(admitted[s]) - Len(requests[s]) + 1,
                                Len(admitted[s]))
\* two calls met the last free slot at the same instant: one took it, the
\* other is suspended
C25_Witness ==
    \E s \in Services : \E c1, c2 \in Calls :
        /\ c1 # c2 /\ svc[c1] = s /\ svc[c2] = s
        /\ pc[c1] = "done" /\ pc[c2] = "waiting" /\ waits[c2] = 1
        /\ Len(requests[s]) = maxRequests
        /\ requests[s][maxRequests] = now

(***************************************************************************)
(* Claims about two consecutive requests for one company                   *)
(***************************************************************************)
\* the last request was answered with a profile fetched from the registry
FetchedAndServed(r) ==
    /\ r.op = "details"
    /\ r.status = 200 /\ r.registryCalls > 0
    /\ r.bodySource = "companies_house"

\* C26: for every company number isValidCompanyNumber accepts, when a request
\* fetched the company from the registry and was answered with it, a request
\* for the same company number that follows at once, with source "both" and
\* no refresh, is answered from the cache without a call to the registry.
C26_SecondRequestFromCache ==
    [][(/\ FetchedAndServed(resp)
        /\ isValidCompanyNumber(resp.number)
        /\ resp'.op = "details" /\ resp'.status = 200
        /\ resp'.number = resp.number
        /\ resp'.source = "both" /\ ~resp'.refresh
        /\ now' = now /\ search_queries' # search_queries)
            => resp'.registryCalls = 0]_vars

(***************************************************************************)
(* Claims comparing a batch item with a single request                     *)
(***************************************************************************)
\* what GET /api/companies/[companyNumber] does for the company number, the
\* options and the registry answer of the one item of the batch b, from the
\* store db at time t
SingleFor(db, t, b) ==
    DetailsHandler(db, t, b.user, b.items[1].text, b.options.source,
                   IF b.options.refresh THEN "true" ELSE NULL,
                   [kind |-> b.items[1].reply.kind, rev |-> b.items[1].reply.rev],
                   "ok")

\* C27: from the same store, registry answer and options, a details item of
\* a batch ends as a single details request does: it fetches from the
\* registry in the same cases (a stale local row included), it answers with
\* a company in the same cases, and it leaves the same rows in the store (a
\* fetched company written back).
C27_BatchItemAsSingle ==
    [][(/\ resp'.op = "bulk" /\ resp'.operation = "details"
        /\ resp'.status = 200 /\ resp'.count = 1)
            => /\ (resp'.registryCalls > 0)
                    = (SingleFor(companies, now, resp').resp.registryCalls > 0)
               /\ (resp'.totalResults = 1)
                    = (SingleFor(companies, now, resp').resp.status = 200)
               /\ companies' = SingleFor(companies, now, resp').companies]_vars

\* C28: the result list of each search of a batch names no company number
\* twice: a company the cache store and the registry both list appears once,
\* as the local entry.
C28_BulkSearchNoDuplicates ==
    (resp.op = "bulk" /\ resp.operation = "search" /\ resp.status = 200) =>
        \A k \in DOMAIN resp.results :
            \A a, b \in DOMAIN resp.results[k].results :
                (resp.results[k].results[a].company_number
                    = resp.results[k].results[b].company_number)
                  => a = b

(***************************************************************************)
(* Specification of repeated write-backs of one company: a detail fetch,   *)
(* a search and a batch search, each answered by the registry with one of  *)
(* its revisions                                                           *)
(***************************************************************************)
MaxRefetchLogRows == 2   \* requests are taken while the log holds fewer rows

InitRefetch ==
    /\ now = ClockOrigin
    /\ InitLimiters
    /\ companies = {}
    /\ search_queries = EmptyBag
    /\ persons = {} /\ company_officers = EmptyBag
    /\ resp = NoResponse

RefetchDetails ==
    /\ BagCardinality(search_queries) < MaxRefetchLogRows
    /\ \E rev \in Revisions :
       \E src \in {"companies_house", "both"} :
          GetDetails("u1", <<"1", "2">>, src, NULL,
                     [kind |-> "ok", rev |-> rev], "ok")

RefetchSearch ==
    /\ BagCardinality(search_queries) < MaxRefetchLogRows
    /\ \E rev \in Revisions :
          SearchCompanies("u1", "prod_nexus_pro", <<"a">>, "companies_house",
                          <<1>>, <<1>>, [kind |-> "ok", count |-> 1, rev |-> rev],
                          "ok")

RefetchBulkSearch ==
    /\ BagCardinality(search_queries) < MaxRefetchLogRows
    /\ \E rev \in Revisions :
          BulkPost("u1", "prod_nexus_pro",
              [operation |-> "search",
               items |-> <<[text |-> <<"a">>, reply |-> BulkReply("ok", 1, rev)]>>,
               options |-> BulkOptions("companies_house", 5, TRUE, FALSE)], "ok")

NextRefetch == RefetchDetails \/ RefetchSearch \/ RefetchBulkSearch \/ Tick

SpecRefetch == InitRefetch /\ [][NextRefetch]_vars

\* C29: every write-back of a company, by a detail fetch or by the candidates
\* of a search, overwrites all stored attributes: the name and the sic codes
\* of a stored row are those of one revision of the registry, never the name
\* of one fetch beside the sic codes of another.
C29_RowFromOneFetch ==
    \A r \in companies :
        r.sic_codes # <<>> => r.sic_codes[1] = r.name[1]

(***************************************************************************)
(* Specification of the write-back of appointments the store already      *)
(* holds: profiles whose officer carries an end date or none               *)
(***************************************************************************)
EndDates == {NULL, "2021-01-01"}
EndedOfficerLists ==
    {<<[name |-> n, appointed_on |-> d, resigned_on |-> e]>> :
        n \in OfficerNames, d \in AppointmentDates, e \in EndDates}
EndedProfiles ==
    {[company |-> getCompany(<<"1", "2">>, [kind |-> "ok", rev |-> v]).value,
      officers |-> o, pscs |-> <<>>] :
        v \in Revisions, o \in EndedOfficerLists}

\* the seed appointment, and beside it one without an appointment date
InitAppoint ==
    /\ now = ClockOrigin
    /\ InitLimiters
    /\ companies = {SeedCompany}
    /\ search_queries = EmptyBag
    /\ persons = {SeedPerson}
    /\ company_officers \in
          {SetToBag({SeedOfficer}),
           SetToBag({SeedOfficer, [SeedOfficer EXCEPT !.appointed_on = NULL]})}
    /\ resp = NoResponse

ApplyEndedProfile ==
    /\ BagCardinality(company_officers) < MaxAppointmentRows
    /\ \E profile \in EndedProfiles, up \in UpsertOutcomes : WriteBack(profile, up)

NextAppoint == ApplyEndedProfile \/ Tick

SpecAppoint == InitAppoint /\ [][NextAppoint]_vars

\* the appointment rows the last write-back presented: officerData of
\* cacheOfficers for each officer of the profile, with the person the store
\* held under the officer's normalized name
PresentedAppointments ==
    UNION {{[company_id |-> (CHOOSE c \in resp.profile.company : TRUE).company_number,
             person_id |-> p.id, role |-> "director",
             appointed_on |-> ToDateColumn(officer.appointed_on),
             resigned_on |-> ToDateColumn(officer.resigned_on)] :
                p \in {q \in resp.before.persons :
                         q.normalized_name = trim(toLowerCase(officer.name))}} :
           officer \in {resp.profile.officers[k] :
                           k \in DOMAIN resp.profile.officers}}
SameKey(r, d) ==
    /\ r.company_id = d.company_id /\ r.person_id = d.person_id
    /\ r.role = d.role /\ r.appointed_on = d.appointed_on

C31_OnePersonPerName ==
    /\ \A p, q \in persons : p.normalized_name = q.normalized_name => p = q
    /\ (resp.op = "writeback" /\ resp.upsert = "ok") =>
          \A k \in DOMAIN resp.profile.officers :
              \E p \in persons :
                  /\ p.normalized_name
                        = trim(toLowerCase(resp.profile.officers[k].name))
                  /\ \E r \in BagToSet(company_officers) :
                        /\ r.person_id = p.id
                        /\ r.company_id =
                              (CHOOSE c \in resp.profile.company : TRUE)
                                  .company_number

(***************************************************************************)
(* Specification of search_companies alone: one call after another, on a   *)
(* store drawn from a pool of companies                                    *)
(***************************************************************************)
MaxFindLimit == 3   \* limit_count is drawn from 1..MaxFindLimit

FindPool ==
    {[company_number |-> n[1], name |-> n[2], sic_codes |-> <<>>,
      last_synced_at |-> NullTs] :
        n \in {<<<<"1", "2">>, <<"A", "B">>>>,
               <<<<"A", "B">>, <<"B", "A">>>>,
               <<<<"2", "1">>, <<"1", "2", " ", "A">>>>,
               <<<<"1", "0">>, <<"B", " ", "A", "B">>>>}}
\* search terms: plain ones, and ones holding the characters % and _
FindTerms ==
    {<<"a">>, <<"a", "b">>, <<"A", "B">>, <<"1", "2">>, <<"0">>,
     <<"_">>, <<"%">>, <<"b", "_">>}

InitFind ==
    /\ now = ClockOrigin
    /\ InitLimiters
    /\ companies \in SUBSET FindPool
    /\ search_queries = EmptyBag
    /\ persons = {} /\ company_officers = EmptyBag
    /\ resp = NoResponse

\* supabase.rpc('search_companies', {search_term, limit_count})
Find ==
    /\ \E term \in FindTerms, limit \in 1..MaxFindLimit :
          resp' = [op |-> "find", term |-> term, limit |-> limit,
                   rows |-> search_companies(companies, term, limit)]
    /\ UNCHANGED <<now, rlVars, storeVars>>

NextFind == Find

SpecFind == InitFind /\ [][NextFind]_vars

\* str holds term, whatever the case of the letters
ContainsTerm(str, term) ==
    \E i \in 1..(Len(str) - Len(term) + 1) :
        toUpperCase(SubSeq(str, i, i + Len(term) - 1)) = toUpperCase(term)
\* the row is a name-prefix match or an exact match of the company number
LeadingMatch(row, term) ==
    \/ /\ Len(term) <= Len(row.name)
       /\ toUpperCase(SubSeq(row.name, 1, Len(term))) = toUpperCase(term)
    \/ row.company_number = term

\* C32: search_companies returns only companies whose name or company number
\* holds the term case-insensitively, at most limit_count of them, every
\* name-prefix or exact-number match before every other match, and in the
\* order of the names within each of the two groups.
C32_SearchOnlyMatchesRanked ==
    resp.op = "find" =>
        /\ Len(resp.rows) <= resp.limit
        /\ \A k \in DOMAIN resp.rows :
              \/ ContainsTerm(resp.rows[k].name, resp.term)
              \/ ContainsTerm(resp.rows[k].company_number, resp.term)
        /\ \A i, j \in DOMAIN resp.rows :
              i < j =>
                /\ LeadingMatch(resp.rows[j], resp.term)
                      => LeadingMatch(resp.rows[i], resp.term)
                /\ (LeadingMatch(resp.rows[i], resp.term)
                        = LeadingMatch(resp.rows[j], resp.term))
                      => ~StrLess(resp.rows[j].name, resp.rows[i].name)

(***************************************************************************)
(* Claims about the write of search candidates                             *)
(***************************************************************************)
\* C33: a search that asked the registry answers what it would answer had
\* the write of the candidates into the cache store succeeded: the same
\* candidates, the same status and the same error list, whether or not the
\* write failed.
C33_CacheFailureNotReported ==
    [][(resp'.op = "search" /\ resp'.registryCalls > 0) =>
          resp' = SearchHandler(companies, search_queries, now, resp'.user,
                      CHOOSE p \in Products : getUserTier(p) = resp'.tier,
                      resp'.q, resp'.source, <<resp'.limit>>, <<resp'.page>>,
                      resp'.reply, "ok").resp]_vars
\* the registry listed candidates, the write of them failed (the store holds
\* none of them) and the response holds them with status 200 and no error
C33_Witness ==
    /\ resp.op = "search" /\ resp.status = 200
    /\ resp.registryCount > 0 /\ resp.errors = {}
    /\ Len(resp.results) > 0
    /\ \A k \in DOMAIN resp.results : resp.results[k].source = "companies_house"
    /\ companies = {}

(***************************************************************************)
(* The registry client when the registry may fail to answer.  The steps    *)
(* the client takes by itself are fair: the event loop runs a call on once *)
(* acquire() has returned, and returns the profile once the three calls    *)
(* have settled.  The settling of a request is not: makeRequest hands      *)
(* fetch no signal and no timer, so nothing in the client ends a request   *)
(* the registry does not answer.                                           *)
(***************************************************************************)
SpecClientFair ==
    /\ SpecClient
    /\ WF_vars(ClientSend) /\ WF_vars(ProfileSend) /\ WF_vars(ProfileReturn)

\* C34: every call of the registry client that was started returns or
\* throws in the end, even when the registry never answers: the request it
\* sent is bounded by a timeout.
C34_RegistryCallReturns ==
    /\ (resp.op = "client-pending") ~> (resp.op = "client")
    /\ (resp.op = "profile-pending") ~> (resp.op = "profile")

(***************************************************************************)
(* Claims about the tier tables                                            *)
(***************************************************************************)
\* C35: the tier a refused batch request reports (403, bulk operations not
\* available) is the tier the search route resolves for the same
\* subscription: free, basic, pro or enterprise.
C35_ReportedTierIsResolvedTier ==
    (resp.op = "bulk" /\ resp.user # NULL /\ resp.status = 403) =>
        resp.tier = getUserTier(resp.product)

\* SUBSCRIPTION_TIERS of the central configuration.  searches and daily_limit
\* are a number or the text 'Unlimited': unlimited is TRUE for the text, and
\* value is the number otherwise.
Limited(n) == [unlimited |-> FALSE, value |-> n]
Unlimited == [unlimited |-> TRUE, value |-> 0]
SUBSCRIPTION_TIERS ==
    [free       |-> [searches |-> Limited(5), results |-> 5,
                     daily_limit |-> Limited(5),
                     features |-> {"basic_search", "company_profiles"}],
     basic      |-> [searches |-> Limited(100), results |-> 20,
                     daily_limit |-> Limited(100),
                     features |-> {"basic_search", "company_profiles",
                                   "search_history", "export_csv"}],
     pro        |-> [searches |-> Limited(1000), results |-> 50,
                     daily_limit |-> Limited(1000),
                     features |-> {"basic_search", "company_profiles",
                                   "search_history", "export_csv",
                                   "advanced_filters", "relationship_mapping",
                                   "risk_analysis", "saved_companies"}],
     enterprise |-> [searches |-> Unlimited, results |-> 100,
                     daily_limit |-> Unlimited,
                     features |-> {"basic_search", "company_profiles",
                                   "search_history", "export_csv",
                                   "advanced_filters", "relationship_mapping",
                                   "risk_analysis", "saved_companies",
                                   "bulk_operations", "api_access",
                                   "team_management", "custom_reports",
                                   "priority_support"}]]
getSubscriptionTier(tierName) ==
    IF tierName \in DOMAIN SUBSCRIPTION_TIERS THEN SUBSCRIPTION_TIERS[tierName]
    ELSE SUBSCRIPTION_TIERS.free
hasFeature(tierName, feature) ==
    feature \in getSubscriptionTier(tierName).features

\* the search route's ceiling (-1: unlimited) is the configured one
SameCeiling(routeLimit, configured) ==
    IF routeLimit = -1 THEN configured.unlimited
    ELSE ~configured.unlimited /\ configured.value = routeLimit

\* C36: for every tier the daily ceiling and the result ceiling of the search
\* route are those of the central configuration, and the batch route admits
\* a caller exactly when the central configuration gives the caller's tier
\* the feature bulk_operations.
C36_TierTablesAgree ==
    /\ \A tier \in DOMAIN SUBSCRIPTION_LIMITS :
          /\ SameCeiling(SUBSCRIPTION_LIMITS[tier].searchesPerDay,
                         getSubscriptionTier(tier).searches)
          /\ SameCeiling(SUBSCRIPTION_LIMITS[tier].searchesPerDay,
                         getSubscriptionTier(tier).daily_limit)
          /\ SUBSCRIPTION_LIMITS[tier].resultsPerSearch
                = getSubscriptionTier(tier).results
    /\ (resp.op = "bulk" /\ resp.user # NULL) =>
          (resp.status # 403)
              = hasFeature(getUserTier(resp.product), "bulk_operations")

(***************************************************************************)
(* Specification of concurrent searches of one caller of the free tier.    *)
(* The handler awaits checkSearchLimit, then searches, then awaits         *)
(* logSearchQuery: other requests run between the two.                     *)
(***************************************************************************)
NumSearchers == 3   \* concurrent search requests of the caller

Searchers == 1..NumSearchers
\* the log after k searches of the caller earlier on the day
EarlierSearches(k) ==
    IF k = 0 THEN EmptyBag
    ELSE [r \in {LogRow("u1", "company_search", ClockOrigin)} |-> k]

InitRace ==
    /\ now = ClockOrigin
    /\ InitLimiters
    /\ companies = {SeedCompany}
    /\ search_queries \in
          {EarlierSearches(k) : k \in 0..(SUBSCRIPTION_LIMITS.free.searchesPerDay - 1)}
    /\ persons = {} /\ company_officers = EmptyBag
    /\ resp = [op |-> "race", procs |-> [p \in Searchers |-> "idle"]]

\* const canSearch = await checkSearchLimit(supabase, user.id, tier)
RaceCheck(p) ==
    /\ resp.procs[p] = "idle"
    /\ resp' = [resp EXCEPT !.procs[p] =
                   IF checkSearchLimit(search_queries, "u1", getUserTier(NULL), now)
                   THEN "admitted" ELSE "denied"]
    /\ UNCHANGED <<now, rlVars, storeVars>>

\* the admitted request searches the cache store and logs itself
RaceLog(p) ==
    /\ resp.procs[p] = "admitted"
    /\ search_queries' =
          logSearchQuery(search_queries, LogRow("u1", "company_search", now))
    /\ resp' = [resp EXCEPT !.procs[p] = "served"]
    /\ UNCHANGED <<now, rlVars, companies, peopleVars>>

NextRace == \E p \in Searchers : RaceCheck(p) \/ RaceLog(p)

SpecRace == InitRace /\ [][NextRace]_vars

\* C37: under any interleaving of concurrent searches of a caller whose tier
\* has the finite daily ceiling C, the searches admitted within one UTC day
\* (those of earlier on the day, and the concurrent ones admitted or served)
\* are at most C.
C37_AdmittedWithinCeiling ==
    resp.op = "race" =>
        BagCardinality(search_queries)
            + Cardinality({p \in Searchers : resp.procs[p] = "admitted"})
          <= SUBSCRIPTION_LIMITS.free.searchesPerDay

(***************************************************************************)
(* Claims about what counts as fresh                                       *)
(***************************************************************************)
\* the last details request was answered with the local row because the row
\* counted as fresh: source "both", no refresh, no call of the registry
ServedAsFresh ==
    /\ resp.op = "details" /\ resp.status = 200
    /\ resp.source = "both" /\ ~resp.refresh
    /\ resp.registryCalls = 0 /\ resp.bodySource = "local"

\* C38: a company that a details request serves as fresh was written by a
\* full-profile synchronization; a company that only the write-back of a
\* search ever wrote (its row has none of the attributes a profile brings:
\* every profile of the registry carries sic codes) is not served as fresh.
C38_FreshOnlyAfterFullSync ==
    ServedAsFresh => \A row \in resp.company : row.sic_codes # <<>>

(***************************************************************************)
(* Specification of details requests for a company whose officers the      *)
(* store holds                                                             *)
(***************************************************************************)
MaxBodyLogRows == 2   \* requests are taken while the log holds fewer rows

InitBody ==
    /\ now = ClockOrigin
    /\ InitLimiters
    /\ companies = {SeedCompany}
    /\ search_queries = EmptyBag
    /\ persons = {SeedPerson} /\ company_officers = SetToBag({SeedOfficer})
    /\ resp = NoResponse

BodyDetails ==
    /\ BagCardinality(search_queries) < MaxBodyLogRows
    /\ \E src \in {"local", "companies_house", "both"}, rev \in Revisions :
          GetDetails("u1", <<"1", "2">>, src, NULL,
                     [kind |-> "ok", rev |-> rev], "ok")

NextBody == BodyDetails \/ Tick

SpecBody == InitBody /\ [][NextBody]_vars

\* C39: when a details request fetched the company from the registry and
\* wrote it back, a local read of the same company that follows at once
\* (source "local") answers with the same company and the same officers.
C39_FetchedEqualsLocalRead ==
    [][(/\ FetchedAndServed(resp)
        /\ resp'.op = "details" /\ resp'.status = 200
        /\ resp'.number = resp.number /\ resp'.source = "local"
        /\ now' = now /\ search_queries' # search_queries)
            => /\ resp'.company = resp.company
               /\ resp'.officers = resp.officers]_vars

====
